---- MODULE Spec2Model ----
(***************************************************************************)
(* A model of coach-ai: the relational task store (the todos table) and    *)
(* the deterministic task selection of task_selection.py.                  *)
(*                                                                         *)
(* Text is modelled as a sequence of one-character strings, so that        *)
(* Python's substring test and strftime's renderings are computed and not  *)
(* assumed.                                                                *)
(***************************************************************************)
EXTENDS Integers, Sequences, FiniteSets, TLC

VARIABLES
  todos,    \* the todos table: rowid -> row
  pc,       \* "idle", "selected" (one call returned), "reselected" (the call was repeated)
  args,     \* the arguments of the last select_tasks_for_today call
  result,   \* what the last select_tasks_for_today call returned
  first,    \* what the call before it returned, when the call was repeated
  before,   \* the todos table as it was when the last call started
  vault,    \* the files of the vault's daily-notes folder: path -> file
  vbefore   \* the files as they were when the last operation started

vars == <<todos, pc, args, result, first, before, vault, vbefore>>

----------------------------------------------------------------------------
(* Bounds of the model. *)

\* the largest number of rows of the todos table
MaxTodos == 4

----------------------------------------------------------------------------
(* Text. *)

Min(a, b) == IF a <= b THEN a ELSE b
Max(a, b) == IF a >= b THEN a ELSE b

\* SQL NULL / Python None in a text column (no text equals it)
NULL == <<"NULL">>
\* SQL NULL / Python None in an integer column
NullInt == 0 - 1

\* Python's `p in s` on str
Contains(s, p) ==
  \E i \in 0..(Len(s) - Len(p)) : \A j \in 1..Len(p) : s[i + j] = p[j]

\* Python's x[:k]
PySlice(x, k) ==
  IF k >= 0 THEN SubSeq(x, 1, Min(k, Len(x)))
  ELSE SubSeq(x, 1, Max(0, Len(x) + k))

\* Python's list.sort(key=...): stable, ascending; keys[i] is the key of s[i]
SortedByKey(s, keys) ==
  LET n == Len(s)
      Before(i, j) == \/ keys[i] < keys[j]
                      \/ keys[i] = keys[j] /\ i < j
      Pos(i) == 1 + Cardinality({j \in 1..n : Before(j, i)})
  IN [p \in 1..n |-> s[CHOOSE i \in 1..n : Pos(i) = p]]

DigitChars == <<"0", "1", "2", "3", "4", "5", "6", "7", "8", "9">>
Digit(n) == DigitChars[n + 1]

\* a two-digit, zero-padded field of strftime (%m, %d)
Pad2(n) == <<Digit((n \div 10) % 10), Digit(n % 10)>>
\* the four-digit year of strftime (%Y)
Pad4(n) == <<Digit((n \div 1000) % 10), Digit((n \div 100) % 10)>> \o Pad2(n % 100)

MonthNames ==
  << <<"J", "a", "n", "u", "a", "r", "y">>,
     <<"F", "e", "b", "r", "u", "a", "r", "y">>,
     <<"M", "a", "r", "c", "h">>,
     <<"A", "p", "r", "i", "l">>,
     <<"M", "a", "y">>,
     <<"J", "u", "n", "e">>,
     <<"J", "u", "l", "y">>,
     <<"A", "u", "g", "u", "s", "t">>,
     <<"S", "e", "p", "t", "e", "m", "b", "e", "r">>,
     <<"O", "c", "t", "o", "b", "e", "r">>,
     <<"N", "o", "v", "e", "m", "b", "e", "r">>,
     <<"D", "e", "c", "e", "m", "b", "e", "r">> >>
MonthAbbrs ==
  << <<"J", "a", "n">>,
     <<"F", "e", "b">>,
     <<"M", "a", "r">>,
     <<"A", "p", "r">>,
     <<"M", "a", "y">>,
     <<"J", "u", "n">>,
     <<"J", "u", "l">>,
     <<"A", "u", "g">>,
     <<"S", "e", "p">>,
     <<"O", "c", "t">>,
     <<"N", "o", "v">>,
     <<"D", "e", "c">> >>

\* target_date.strftime("%Y-%m-%d"), also date.isoformat()
isoformat(d) == Pad4(d.year) \o <<"-">> \o Pad2(d.month) \o <<"-">> \o Pad2(d.day)
\* target_date.strftime("%m/%d")
MonthSlashDay(d) == Pad2(d.month) \o <<"/">> \o Pad2(d.day)
\* target_date.strftime("%B %d")
FullMonthDay(d) == MonthNames[d.month] \o <<" ">> \o Pad2(d.day)
\* target_date.strftime("%b %d")
AbbrMonthDay(d) == MonthAbbrs[d.month] \o <<" ">> \o Pad2(d.day)

date_patterns(d) == {isoformat(d), MonthSlashDay(d), FullMonthDay(d), AbbrMonthDay(d)}

TagDeadline == <<"[", "D", "e", "a", "d", "l", "i", "n", "e", "]">>
TagSprintWork == <<"[", "S", "p", "r", "i", "n", "t", " ", "W", "o", "r", "k", "]">>
TagManagement == <<"[", "M", "a", "n", "a", "g", "e", "m", "e", "n", "t", "]">>
TagQuickWin == <<"[", "Q", "u", "i", "c", "k", " ", "W", "i", "n", "]">>

\* `todo.get("notes") or ""`
NotesOf(t) == IF t.notes = NULL THEN <<>> ELSE t.notes

----------------------------------------------------------------------------
(* The todos table. *)

\* rows with skipped_count of this many or more are left out of the selection
SkipLimit == 5
\* max_important as select_tasks_for_today passes it
MaxImportant == 2
\* max_quick as select_tasks_for_today passes it
MaxQuick == 3
\* a time estimate of at most this many minutes makes a quick win
QuickMinutes == 30
\* the default of max_tasks, which start_my_day passes too
DefaultMaxTasks == 5

\* `t["skipped_count"] or 0`
OrZero(x) == IF x = NullInt THEN 0 ELSE x

\* the set of ids of a list of task dicts
IdsOf(s) == {s[i].id : i \in 1..Len(s)}
\* the list of ids of a list of task dicts
IdSeq(s) == [i \in 1..Len(s) |-> s[i].id]

\* one fetched row as the dict select_tasks_for_today builds from it
RowDict(T, i) ==
  [id |-> i, title |-> T[i].title, priority |-> T[i].priority, notes |-> T[i].notes,
   time_estimate |-> T[i].time_estimate, skipped_count |-> T[i].skipped_count,
   last_scheduled |-> T[i].last_scheduled, created_at |-> T[i].created_at]

\* ORDER BY created_at ASC: SQLite scans the table in rowid order and keeps that
\* order among rows of equal created_at
RECURSIVE OrderByCreatedAt(_, _)
OrderByCreatedAt(T, ids) ==
  IF ids = {} THEN <<>>
  ELSE LET m == CHOOSE i \in ids : \A j \in ids :
                  \/ T[i].created_at < T[j].created_at
                  \/ T[i].created_at = T[j].created_at /\ i <= j
       IN <<RowDict(T, m)>> \o OrderByCreatedAt(T, ids \ {m})

\* FetchActive, were it to leave out the rows that were scheduled before
FetchNeverScheduled(T) ==
  OrderByCreatedAt(T, {i \in DOMAIN T : /\ T[i].status = "active"
                                        /\ T[i].last_scheduled = NULL})

\* SELECT ... FROM todos WHERE status = 'active' ORDER BY created_at ASC
FetchActive(T) ==
  OrderByCreatedAt(T, {i \in DOMAIN T : T[i].status = "active"})

\* SkipFilter, were the comparison <= 5
SkipFilterInclusive(rows) ==
  SelectSeq(rows, LAMBDA t : OrZero(t.skipped_count) <= SkipLimit)

\* todos = [t for t in todos if (t["skipped_count"] or 0) < 5]
SkipFilter(rows) == SelectSeq(rows, LAMBDA t : OrZero(t.skipped_count) < SkipLimit)

----------------------------------------------------------------------------
(* task_selection.py *)

\* any(pattern in notes for pattern in date_patterns)
HasTargetDate(t, patterns) ==
  \E pattern \in patterns : Contains(NotesOf(t), pattern)
HasDeadlineFlag(t) == Contains(NotesOf(t), TagDeadline)
HasSprintTag(t) ==
  \E tag \in {TagSprintWork, TagManagement} : Contains(NotesOf(t), tag)
HasQuickWinTag(t) == Contains(NotesOf(t), TagQuickWin)
\* t.get("time_estimate") and t["time_estimate"] <= 30
IsTimeBased(t) ==
  /\ t.time_estimate # NullInt
  /\ t.time_estimate # 0
  /\ t.time_estimate <= QuickMinutes

\* Available, were the exclusion forgotten
AvailableAll(rows, exclude_ids) == rows

\* [t for t in todos if t["id"] not in exclude_ids]
Available(rows, exclude_ids) == SelectSeq(rows, LAMBDA t : t.id \notin exclude_ids)

\* BySkippedCount, were the list left as fetched
BySkippedCountUnsorted(rows) == rows

\* .sort(key=lambda t: t.get("skipped_count", 0))
BySkippedCount(rows) == SortedByKey(rows, [i \in 1..Len(rows) |-> rows[i].skipped_count])
\* ByTimeEstimate, were the list left as fetched
ByTimeEstimateUnsorted(rows) == rows

\* .sort(key=lambda t: t["time_estimate"])
ByTimeEstimate(rows) == SortedByKey(rows, [i \in 1..Len(rows) |-> rows[i].time_estimate])
\* .sort(key=lambda t: t["created_at"])
ByCreatedAt(rows) == SortedByKey(rows, [i \in 1..Len(rows) |-> rows[i].created_at])

\* _select_critical_tasks, were the [Deadline] flag looked for before the date
CriticalDeadlineFirst(rows, target_date) ==
  LET patterns == date_patterns(target_date)
      dated == SelectSeq(rows, LAMBDA t : HasTargetDate(t, patterns))
      flagged == SelectSeq(rows, LAMBDA t : HasDeadlineFlag(t))
      high_priority == BySkippedCount(SelectSeq(rows, LAMBDA t : t.priority = "high"))
  IN IF flagged # <<>> THEN <<flagged[1]>>
     ELSE IF dated # <<>> THEN <<dated[1]>>
     ELSE IF high_priority # <<>> THEN <<high_priority[1]>>
     ELSE <<>>

_select_critical_tasks(rows, target_date) ==
  LET patterns == date_patterns(target_date)
      dated == SelectSeq(rows, LAMBDA t : HasTargetDate(t, patterns))
      flagged == SelectSeq(rows, LAMBDA t : HasDeadlineFlag(t))
      high_priority == BySkippedCount(SelectSeq(rows, LAMBDA t : t.priority = "high"))
  IN IF dated # <<>> THEN <<dated[1]>>
     ELSE IF flagged # <<>> THEN <<flagged[1]>>
     ELSE IF high_priority # <<>> THEN <<high_priority[1]>>
     ELSE <<>>

_select_important_tasks(rows, exclude, max_important) ==
  LET exclude_ids == IdsOf(exclude)
      available == Available(rows, exclude_ids)
      high_priority ==
        BySkippedCount(SelectSeq(available, LAMBDA t : t.priority = "high"))
      important1 == PySlice(high_priority, max_important)
      exclude_ids2 == exclude_ids \cup IdsOf(important1)
      available2 == Available(available, exclude_ids2)
      sprint_tasks == SelectSeq(available2, LAMBDA t : HasSprintTag(t))
      important2 ==
        important1 \o PySlice(sprint_tasks, max_important - Len(important1))
      exclude_ids3 == exclude_ids2 \cup IdsOf(important2)
      available3 == Available(available2, exclude_ids3)
      medium_priority ==
        ByCreatedAt(SelectSeq(available3, LAMBDA t : t.priority = "medium"))
      important3 ==
        important2 \o PySlice(medium_priority, max_important - Len(important2))
  IN IF Len(important1) >= max_important THEN PySlice(important1, max_important)
     ELSE IF Len(important2) >= max_important THEN PySlice(important2, max_important)
     ELSE PySlice(important3, max_important)

_select_quick_wins(rows, exclude, max_quick) ==
  LET exclude_ids == IdsOf(exclude)
      available == Available(rows, exclude_ids)
      explicit_quick == SelectSeq(available, LAMBDA t : HasQuickWinTag(t))
      quick1 == PySlice(explicit_quick, max_quick)
      exclude_ids2 == exclude_ids \cup IdsOf(quick1)
      available2 == Available(available, exclude_ids2)
      time_based == ByTimeEstimate(SelectSeq(available2, LAMBDA t : IsTimeBased(t)))
      quick2 == quick1 \o PySlice(time_based, max_quick - Len(quick1))
      exclude_ids3 == exclude_ids2 \cup IdsOf(quick2)
      available3 == Available(available2, exclude_ids3)
      low_priority ==
        ByCreatedAt(SelectSeq(available3, LAMBDA t : t.priority = "low"))
      quick3 == quick2 \o PySlice(low_priority, max_quick - Len(quick2))
  IN IF Len(quick1) >= max_quick THEN PySlice(quick1, max_quick)
     ELSE IF Len(quick2) >= max_quick THEN PySlice(quick2, max_quick)
     ELSE PySlice(quick3, max_quick)

\* Categorize, were the limits passed one too large
CategorizeOneMore(rows, target_date) ==
  LET critical == _select_critical_tasks(rows, target_date)
      important == _select_important_tasks(rows, critical, MaxImportant + 1)
      quick_wins == _select_quick_wins(rows, critical \o important, MaxQuick + 1)
  IN [critical |-> critical, important |-> important, quick_wins |-> quick_wins]

\* "Categorize todos": the three buckets before the total is limited
Categorize(rows, target_date) ==
  LET critical == _select_critical_tasks(rows, target_date)
      important == _select_important_tasks(rows, critical, MaxImportant)
      quick_wins == _select_quick_wins(rows, critical \o important, MaxQuick)
  IN [critical |-> critical, important |-> important, quick_wins |-> quick_wins]

\* LimitTotal, were the second trimming step left out
LimitQuickWinsOnly(b, max_tasks) ==
  LET c == Len(b.critical)
      n == Len(b.important)
  IN IF c + n + Len(b.quick_wins) > max_tasks
        THEN [b EXCEPT !.quick_wins = PySlice(b.quick_wins, Max(0, max_tasks - c - n))]
        ELSE b

\* Python's x[len(x) - k:] for 0 <= k
PyLast(x, k) == SubSeq(x, Len(x) - Min(k, Len(x)) + 1, Len(x))

\* LimitTotal, were the lists cut at the head, keeping their last elements
LimitTotalFromHead(b, max_tasks) ==
  LET c == Len(b.critical)
      n == Len(b.important)
      quick_wins == PyLast(b.quick_wins, Max(0, max_tasks - c - n))
      important == IF c + n > max_tasks
                      THEN PyLast(b.important, Max(0, max_tasks - c))
                      ELSE b.important
  IN IF c + n + Len(b.quick_wins) > max_tasks
        THEN [critical |-> b.critical, important |-> important, quick_wins |-> quick_wins]
        ELSE b

\* "Limit total tasks": keep all critical, trim quick wins first, then important
LimitTotal(b, max_tasks) ==
  LET c == Len(b.critical)
      n == Len(b.important)
      quick_wins == PySlice(b.quick_wins, Max(0, max_tasks - c - n))
      important == IF c + n > max_tasks
                      THEN PySlice(b.important, Max(0, max_tasks - c))
                      ELSE b.important
  IN IF c + n + Len(b.quick_wins) > max_tasks
        THEN [critical |-> b.critical, important |-> important, quick_wins |-> quick_wins]
        ELSE b

\* StampScheduled, were the UPDATE to name the active rows and not the ids
StampAllActive(T, selected_ids, target_date) ==
  [i \in DOMAIN T |->
     IF selected_ids # {} /\ T[i].status = "active"
        THEN [T[i] EXCEPT !.last_scheduled = isoformat(target_date)]
        ELSE T[i]]

\* UPDATE todos SET last_scheduled = ? WHERE id IN (selected_ids)
StampScheduled(T, selected_ids, target_date) ==
  [i \in DOMAIN T |->
     IF i \in selected_ids
        THEN [T[i] EXCEPT !.last_scheduled = isoformat(target_date)]
        ELSE T[i]]

\* the dict select_tasks_for_today returns
select_tasks_for_today(T, target_date, max_tasks) ==
  LET all_todos == FetchActive(T)
      b == LimitTotal(Categorize(SkipFilter(all_todos), target_date), max_tasks)
  IN IF all_todos = <<>>
        THEN [critical |-> <<>>, important |-> <<>>, quick_wins |-> <<>>,
              backlog_count |-> 0]
        ELSE [critical |-> b.critical, important |-> b.important,
              quick_wins |-> b.quick_wins, backlog_count |-> Len(all_todos)]

\* critical + important + quick_wins of a returned dict
SelectedTasks(r) == r.critical \o r.important \o r.quick_wins

----------------------------------------------------------------------------
(* The inputs: a persisted todos table and the arguments of a call.  The    *)
(* database file outlives the process and is read as it is found, so the    *)
(* table starts as any list of well-formed rows (priority one of the three, *)
(* time_estimate NULL or positive, skipped_count >= 0, rowid and created_at *)
(* both growing with insertion).                                            *)

NotesDueSlash == <<"d", "u", "e", " ", "1", "1", "/", "0", "7">>
NotesIsoAndFull == <<"2", "0", "2", "5", "-", "1", "1", "-", "0", "7", " ", "N", "o", "v", "e", "m", "b", "e", "r", " ", "0", "8">>
NotesDeadline == <<"[", "D", "e", "a", "d", "l", "i", "n", "e", "]">>
NotesDeadlineAbbr == <<"[", "D", "e", "a", "d", "l", "i", "n", "e", "]", " ", "N", "o", "v", " ", "0", "8">>
NotesDeadlineBoth == <<"[", "D", "e", "a", "d", "l", "i", "n", "e", "]", " ", "1", "1", "/", "0", "7", " ", "N", "o", "v", " ", "0", "8">>
NotesSprint == <<"[", "S", "p", "r", "i", "n", "t", " ", "W", "o", "r", "k", "]">>
NotesManagement == <<"[", "M", "a", "n", "a", "g", "e", "m", "e", "n", "t", "]", " ", "1", ":", "1">>
NotesQuickWin == <<"[", "Q", "u", "i", "c", "k", " ", "W", "i", "n", "]">>
ScheduledEarlier == <<"2", "0", "2", "5", "-", "1", "1", "-", "0", "6">>

TargetDates ==
  { [year |-> 2025, month |-> 11, day |-> 7],
    [year |-> 2025, month |-> 11, day |-> 8] }

\* max_tasks: none, fewer than the buckets hold, and the default
MaxTasksValues == {0, 1, 2, 3, DefaultMaxTasks}

Kind(priority, notes, time_estimate, skipped_count, status, last_scheduled) ==
  [priority |-> priority, notes |-> notes, time_estimate |-> time_estimate,
   skipped_count |-> skipped_count, status |-> status,
   last_scheduled |-> last_scheduled]

\* rows of every sort: in several categories at once, skipped out, completed
MixedKinds ==
  { Kind("high", NotesQuickWin, 10, 1, "active", NULL),
    Kind("high", <<>>, NullInt, 0, "active", ScheduledEarlier),
    Kind("medium", NotesDueSlash, 20, 0, "active", NULL),
    Kind("low", NULL, NullInt, 0, "active", NULL),
    Kind("high", NotesDeadlineAbbr, 10, 5, "active", NULL),
    Kind("medium", NotesDeadline, NullInt, 0, "completed", ScheduledEarlier) }

\* rows for the rules of the critical bucket: each date format decides for
\* one row on one date
CriticalKinds ==
  { Kind("medium", NotesDueSlash, NullInt, 0, "active", NULL),
    Kind("low", NotesDeadlineAbbr, NullInt, 0, "active", NULL),
    Kind("low", NotesIsoAndFull, NullInt, 0, "active", NULL),
    Kind("high", <<>>, NullInt, 1, "active", NULL),
    Kind("high", <<>>, NullInt, 0, "active", NULL),
    Kind("medium", NULL, NullInt, 0, "active", NULL),
    Kind("high", NotesDeadlineBoth, NullInt, 6, "active", NULL) }

\* rows for the categories of the important bucket
ImportantKinds ==
  { Kind("high", <<>>, NullInt, 0, "active", NULL),
    Kind("high", NotesSprint, NullInt, 2, "active", NULL),
    Kind("low", NotesSprint, NullInt, 0, "active", NULL),
    Kind("medium", NotesManagement, NullInt, 0, "active", NULL),
    Kind("medium", <<>>, NullInt, 0, "active", NULL),
    Kind("low", NULL, NullInt, 0, "active", NULL),
    Kind("medium", <<>>, NullInt, 3, "active", NULL) }

\* rows for the categories of the quick-win bucket
QuickKinds ==
  { Kind("low", NotesQuickWin, 15, 0, "active", NULL),
    Kind("low", <<>>, 20, 0, "active", NULL),
    Kind("medium", <<>>, 10, 0, "active", NULL),
    Kind("low", NULL, 30, 0, "active", NULL),
    Kind("low", <<>>, 31, 0, "active", NULL),
    Kind("low", <<>>, NullInt, 0, "active", NULL),
    Kind("medium", NULL, NullInt, 0, "active", NULL),
    Kind("high", <<>>, 25, 0, "active", NULL) }

\* created_at has a resolution of one second: consecutive rows may share it
CreatedAt(i) == (i + 1) \div 2

MakeRow(i, k) ==
  [title |-> <<"t", Digit(i)>>, priority |-> k.priority, notes |-> k.notes,
   status |-> k.status, created_at |-> CreatedAt(i),
   completed_at |-> IF k.status = "completed" THEN CreatedAt(i) + 1 ELSE NullInt,
   skipped_count |-> k.skipped_count, time_estimate |-> k.time_estimate,
   last_scheduled |-> k.last_scheduled]

\* a vault without a daily note
NoFiles == <<>>

NoArgs == [target_date |-> [year |-> 0, month |-> 1, day |-> 1], max_tasks |-> 0]
NoResult ==
  [critical |-> <<>>, important |-> <<>>, quick_wins |-> <<>>, backlog_count |-> 0]

\* a table of at most MaxTodos rows drawn from kinds, no call made yet
InitFrom(kinds) ==
  /\ \E n \in 0..MaxTodos :
       \E ks \in [1..n -> kinds] :
         todos = [i \in 1..n |-> MakeRow(i, ks[i])]
  /\ pc = "idle"
  /\ args = NoArgs
  /\ result = NoResult
  /\ first = NoResult
  /\ before = todos
  /\ vault = NoFiles
  /\ vbefore = NoFiles

Init == InitFrom(MixedKinds)
InitCritical == InitFrom(CriticalKinds)
InitImportant == InitFrom(ImportantKinds)
InitQuick == InitFrom(QuickKinds)

\* one call of select_tasks_for_today(db, target_date, max_tasks)
Call(target_date, max_tasks) ==
  LET r == select_tasks_for_today(todos, target_date, max_tasks)
  IN /\ result' = r
     /\ todos' = StampScheduled(todos, IdsOf(SelectedTasks(r)), target_date)
     /\ before' = todos
     /\ args' = [target_date |-> target_date, max_tasks |-> max_tasks]
     /\ UNCHANGED <<vault, vbefore>>

Select ==
  /\ pc = "idle"
  /\ \E target_date \in TargetDates, max_tasks \in MaxTasksValues :
       Call(target_date, max_tasks)
  /\ pc' = "selected"
  /\ first' = first

\* the call as start_my_day makes it, max_tasks=5
SelectDefault ==
  /\ pc = "idle"
  /\ \E target_date \in TargetDates : Call(target_date, DefaultMaxTasks)
  /\ pc' = "selected"
  /\ first' = first

\* the same call once more, with nothing done to the store in between
SelectAgain ==
  /\ pc = "selected"
  /\ Call(args.target_date, args.max_tasks)
  /\ pc' = "reselected"
  /\ first' = result

Next == Select \/ SelectAgain

Spec == Init /\ [][Next]_vars
SpecCritical == InitCritical /\ [][SelectDefault]_vars
SpecImportant == InitImportant /\ [][SelectDefault]_vars
SpecQuick == InitQuick /\ [][SelectDefault]_vars

----------------------------------------------------------------------------
(* What the claims speak of. *)

\* a call of select_tasks_for_today has returned
Returned == pc # "idle"
\* |critical| + |important| + |quick_wins| of the returned dict
Total == Len(SelectedTasks(result))
\* the ids of the returned tasks
ReturnedIds == IdsOf(SelectedTasks(result))
\* the three buckets of the last call as they were before the total was limited
Uncut == Categorize(SkipFilter(FetchActive(before)), args.target_date)
\* the row took part in the selection: active and skipped fewer than 5 times
Eligible(i) == before[i].status = "active" /\ before[i].skipped_count < 5

IsPrefix(a, b) == Len(a) <= Len(b) /\ \A i \in 1..Len(a) : a[i] = b[i]

----------------------------------------------------------------------------
(* C1 *)

----------------------------------------------------------------------------
(* C2 *)

\* C2: for every backlog, target date and max_tasks the call returns at most
\* 1 critical, at most 2 important and at most 3 quick-win tasks.
C2_BucketSizes ==
  Returned =>
    /\ Len(result.critical) <= 1
    /\ Len(result.important) <= 2
    /\ Len(result.quick_wins) <= 3

\* three quick wins returned while a fourth low-priority row stayed behind
C2_Witness ==
  /\ Returned
  /\ Len(result.quick_wins) = 3
  /\ args.max_tasks = DefaultMaxTasks
  /\ \E i \in DOMAIN before :
       /\ Eligible(i)
       /\ before[i].priority = "low"
       /\ i \notin ReturnedIds

----------------------------------------------------------------------------
(* C3 *)

\* C3: trimming removes tasks from the tail only: the returned quick_wins and
\* important are prefixes of the untrimmed lists, important is shortened only
\* if the returned quick_wins is empty, and critical is the untrimmed critical.
C3_TrimFromTail ==
  Returned =>
    LET untrimmed == Uncut
    IN /\ result.critical = untrimmed.critical
       /\ IsPrefix(result.important, untrimmed.important)
       /\ IsPrefix(result.quick_wins, untrimmed.quick_wins)
       /\ result.important # untrimmed.important => result.quick_wins = <<>>

\* important lost its tail, quick_wins all, and the critical task stayed
C3_Witness ==
  /\ Returned
  /\ Len(result.critical) = 1
  /\ Len(result.important) = 1
  /\ Len(Uncut.important) = 2
  /\ Uncut.quick_wins # <<>>

----------------------------------------------------------------------------
(* C4 *)

\* C4: a task whose skipped_count is 5 or more is in no returned bucket,
\* whatever its priority, tags, notes or time estimate.
C4_SkippedOutNeverSelected ==
  Returned =>
    \A i \in ReturnedIds : before[i].skipped_count < 5

\* a high-priority row with [Deadline] and the target date in its notes,
\* skipped 5 times and passed over, while another task was returned
C4_Witness ==
  /\ Returned
  /\ Total >= 1
  /\ \E i \in DOMAIN before :
       /\ before[i].status = "active"
       /\ before[i].skipped_count >= 5
       /\ before[i].priority = "high"
       /\ HasDeadlineFlag(before[i])
       /\ HasTargetDate(before[i], date_patterns(args.target_date))

----------------------------------------------------------------------------
(* C5 *)

\* C5 as stated: the call repeated with the same target date, the store
\* otherwise unchanged, yields identical bucket contents in identical order.
C5_IdenticalBuckets ==
  pc = "reselected" =>
    /\ result.critical = first.critical
    /\ result.important = first.important
    /\ result.quick_wins = first.quick_wins

\* the two lists hold the same tasks in the same order, equal in every field
\* but last_scheduled, which the second holds as stamped by the first call
SameButStamped(x, y, stamp) ==
  /\ Len(x) = Len(y)
  /\ \A i \in 1..Len(x) :
       /\ [x[i] EXCEPT !.last_scheduled = stamp] = y[i]
       /\ y[i].last_scheduled = stamp

\* C5 amended: the repeated call returns the same tasks (by identifier) in the
\* same order in every bucket and the same backlog_count; the returned records
\* are equal in every field except last_scheduled, where the first call
\* returns the value from before its own stamp and the second the target date.
C5_SameTasksAgain ==
  pc = "reselected" =>
    /\ SameButStamped(first.critical, result.critical, isoformat(args.target_date))
    /\ SameButStamped(first.important, result.important, isoformat(args.target_date))
    /\ SameButStamped(first.quick_wins, result.quick_wins, isoformat(args.target_date))
    /\ result.backlog_count = first.backlog_count

\* a repeated call that returned tasks in all three buckets
C5_Witness ==
  /\ pc = "reselected"
  /\ first.critical # <<>>
  /\ first.important # <<>>
  /\ first.quick_wins # <<>>

----------------------------------------------------------------------------
(* C6 *)

\* the rows that took part in the last call's selection
EligibleIds == {i \in DOMAIN before : Eligible(i)}

\* row i was created before row j: created_at first, the rowid among equals
CreatedBefore(i, j) ==
  \/ before[i].created_at < before[j].created_at
  \/ before[i].created_at = before[j].created_at /\ i < j

\* C6: the critical bucket follows strict rule precedence over the
\* skip-filtered active backlog: if any task's notes hold the target date in
\* one of the four formats the critical task is such a task; else if any
\* task's notes hold [Deadline] it is such a task; else if any task is of high
\* priority it is the high-priority task with the smallest skipped_count, the
\* earliest created among equals; else critical is empty.
C6_CriticalByPrecedence ==
  Returned =>
    LET patterns == date_patterns(args.target_date)
        dated == {i \in EligibleIds : HasTargetDate(before[i], patterns)}
        flagged == {i \in EligibleIds : HasDeadlineFlag(before[i])}
        high == {i \in EligibleIds : before[i].priority = "high"}
        c == result.critical
    IN IF dated # {} THEN Len(c) = 1 /\ c[1].id \in dated
       ELSE IF flagged # {} THEN Len(c) = 1 /\ c[1].id \in flagged
       ELSE IF high # {}
          THEN /\ Len(c) = 1
               /\ c[1].id \in high
               /\ \A j \in high \ {c[1].id} :
                    \/ before[c[1].id].skipped_count < before[j].skipped_count
                    \/ /\ before[c[1].id].skipped_count = before[j].skipped_count
                       /\ CreatedBefore(c[1].id, j)
       ELSE c = <<>>

\* a task with the target date in its notes is critical although a [Deadline]
\* task and a high-priority task were both created before it
C6_Witness ==
  /\ Returned
  /\ Len(result.critical) = 1
  /\ HasTargetDate(result.critical[1], date_patterns(args.target_date))
  /\ ~HasDeadlineFlag(result.critical[1])
  /\ \E j \in EligibleIds :
       /\ CreatedBefore(j, result.critical[1].id)
       /\ HasDeadlineFlag(before[j])
  /\ \E j \in EligibleIds :
       /\ CreatedBefore(j, result.critical[1].id)
       /\ before[j].priority = "high"

----------------------------------------------------------------------------
(* C7 *)

\* the category of the important bucket row i falls in, 0 for none
ImportantCategory(i) ==
  IF before[i].priority = "high" THEN 1
  ELSE IF \/ Contains(NotesOf(before[i]), TagSprintWork)
          \/ Contains(NotesOf(before[i]), TagManagement) THEN 2
  ELSE IF before[i].priority = "medium" THEN 3
  ELSE 0

\* row i is taken for the important bucket before row j
ImportantBefore(i, j) ==
  \/ ImportantCategory(i) < ImportantCategory(j)
  \/ /\ ImportantCategory(i) = ImportantCategory(j)
     /\ IF ImportantCategory(i) = 1
           THEN \/ before[i].skipped_count < before[j].skipped_count
                \/ /\ before[i].skipped_count = before[j].skipped_count
                   /\ CreatedBefore(i, j)
           ELSE CreatedBefore(i, j)

\* C7: the important bucket is filled from the tasks not in critical in
\* category order, stopping at 2: high-priority tasks by ascending
\* skipped_count, then tasks tagged [Sprint Work] or [Management] in creation
\* order, then medium-priority tasks oldest first; a task of a later category
\* is there only if the earlier categories supplied fewer than 2.
C7_ImportantByCategory ==
  Returned =>
    LET candidates == {i \in EligibleIds \ IdsOf(result.critical) :
                         ImportantCategory(i) # 0}
        important == IdSeq(result.important)
        taken == {important[k] : k \in 1..Len(important)}
    IN /\ Len(important) = Min(2, Cardinality(candidates))
       /\ taken \subseteq candidates
       /\ \A k \in 1..(Len(important) - 1) :
            ImportantBefore(important[k], important[k + 1])
       /\ \A j \in candidates \ taken : \A i \in taken : ImportantBefore(i, j)

\* a high-priority task skipped twice follows one never skipped and created
\* after it, while a tagged task and a medium task stay behind
C7_Witness ==
  /\ Returned
  /\ Len(result.important) = 2
  /\ result.important[1].priority = "high"
  /\ result.important[2].priority = "high"
  /\ result.important[1].skipped_count < result.important[2].skipped_count
  /\ CreatedBefore(result.important[2].id, result.important[1].id)
  /\ \E j \in EligibleIds \ ReturnedIds : ImportantCategory(j) = 2

----------------------------------------------------------------------------
(* C8 *)

\* the category of the quick-win bucket row i falls in, 0 for none
QuickCategory(i) ==
  IF Contains(NotesOf(before[i]), TagQuickWin) THEN 1
  ELSE IF before[i].time_estimate # NullInt /\ before[i].time_estimate <= 30 THEN 2
  ELSE IF before[i].priority = "low" THEN 3
  ELSE 0

\* row i is taken for the quick-win bucket before row j
QuickBefore(i, j) ==
  \/ QuickCategory(i) < QuickCategory(j)
  \/ /\ QuickCategory(i) = QuickCategory(j)
     /\ IF QuickCategory(i) = 2
           THEN \/ before[i].time_estimate < before[j].time_estimate
                \/ /\ before[i].time_estimate = before[j].time_estimate
                   /\ CreatedBefore(i, j)
           ELSE CreatedBefore(i, j)

\* C8: the quick-win bucket is filled from the tasks not in critical or
\* important in category order, stopping at 3: tasks tagged [Quick Win], then
\* tasks with a time estimate of at most 30 minutes by ascending estimate,
\* then low-priority tasks oldest first; a task of a later category is there
\* only if the earlier categories supplied fewer than 3.
C8_QuickWinsByCategory ==
  Returned =>
    LET claimed == IdsOf(result.critical) \cup IdsOf(result.important)
        candidates == {i \in EligibleIds \ claimed : QuickCategory(i) # 0}
        quick_wins == IdSeq(result.quick_wins)
        taken == {quick_wins[k] : k \in 1..Len(quick_wins)}
    IN /\ Len(quick_wins) = Min(3, Cardinality(candidates))
       /\ taken \subseteq candidates
       /\ \A k \in 1..(Len(quick_wins) - 1) :
            QuickBefore(quick_wins[k], quick_wins[k + 1])
       /\ \A j \in candidates \ taken : \A i \in taken : QuickBefore(i, j)

\* beside a critical task the bucket holds a tagged task and then two untagged
\* tasks, ordered by estimate against their order of creation
C8_Witness ==
  /\ Returned
  /\ Len(result.quick_wins) = 3
  /\ QuickCategory(result.quick_wins[1].id) = 1
  /\ QuickCategory(result.quick_wins[2].id) = 2
  /\ QuickCategory(result.quick_wins[3].id) = 2
  /\ result.quick_wins[2].time_estimate < result.quick_wins[3].time_estimate
  /\ CreatedBefore(result.quick_wins[3].id, result.quick_wins[2].id)
  /\ result.critical # <<>>

----------------------------------------------------------------------------
(* C9 *)

\* C9: the three returned buckets are pairwise disjoint by task identifier and
\* no bucket holds an identifier twice.
C9_NoTaskTwice ==
  Returned =>
    LET sel == SelectedTasks(result)
    IN \A i, j \in 1..Len(sel) : i # j => sel[i].id # sel[j].id

\* a returned high-priority task tagged [Quick Win] with a 10-minute estimate,
\* and another task beside it
C9_Witness ==
  /\ Returned
  /\ Total >= 2
  /\ \E i \in ReturnedIds :
       /\ before[i].priority = "high"
       /\ HasQuickWinTag(before[i])
       /\ before[i].time_estimate = 10

----------------------------------------------------------------------------
(* C10 *)

\* C10: after the call every returned task has last_scheduled = target date
\* in the store, and every other row (not selected, trimmed away, skipped out
\* or completed) is unchanged in every field.
C10_StampOnlyReturned ==
  Returned =>
    /\ DOMAIN todos = DOMAIN before
    /\ \A i \in DOMAIN before :
         IF i \in ReturnedIds
            THEN todos[i].last_scheduled = isoformat(args.target_date)
            ELSE todos[i] = before[i]

\* a call that returned a task, trimmed another away and left a skipped-out
\* row and a completed row behind
C10_Witness ==
  /\ Returned
  /\ Total >= 1
  /\ Len(SelectedTasks(Uncut)) > Total
  /\ \E i \in DOMAIN before : before[i].status = "completed"
  /\ \E i \in DOMAIN before :
       before[i].status = "active" /\ before[i].skipped_count >= 5

----------------------------------------------------------------------------
(* daily_notes.py: reconciling the checked lines of a note with the todos. *)

Least(S) == CHOOSE x \in S : \A y \in S : x <= y
Greatest(S) == CHOOSE x \in S : \A y \in S : x >= y

UpperChars ==
  <<"A", "B", "C", "D", "E", "F", "G", "H", "I", "J", "K", "L", "M",
    "N", "O", "P", "Q", "R", "S", "T", "U", "V", "W", "X", "Y", "Z">>
LowerChars ==
  <<"a", "b", "c", "d", "e", "f", "g", "h", "i", "j", "k", "l", "m",
    "n", "o", "p", "q", "r", "s", "t", "u", "v", "w", "x", "y", "z">>

\* str.lower()
lower(s) ==
  [i \in 1..Len(s) |->
     IF \E k \in 1..Len(UpperChars) : UpperChars[k] = s[i]
        THEN LowerChars[CHOOSE k \in 1..Len(UpperChars) : UpperChars[k] = s[i]]
        ELSE s[i]]

\* str.isspace() of one character of a line
IsSpace(c) == c \in {" ", "\t", "U+00A0"}

\* str.strip()
strip(s) ==
  LET inked == {i \in 1..Len(s) : ~IsSpace(s[i])}
  IN IF inked = {} THEN <<>> ELSE SubSeq(s, Least(inked), Greatest(inked))

\* how far a from i and b from j run alike
RECURSIVE RunLength(_, _, _, _)
RunLength(a, b, i, j) ==
  IF i > Len(a) \/ j > Len(b) THEN 0
  ELSE IF a[i] # b[j] THEN 0
  ELSE 1 + RunLength(a, b, i + 1, j + 1)

\* SequenceMatcher.find_longest_match: the longest block a[i..i+k-1] =
\* b[j..j+k-1], of those the one starting earliest in a, then earliest in b
find_longest_match(a, b) ==
  LET k == Greatest({0} \cup {RunLength(a, b, i, j) : i \in 1..Len(a), j \in 1..Len(b)})
      i == Least({x \in 1..Len(a) : \E y \in 1..Len(b) : RunLength(a, b, x, y) = k})
      j == Least({y \in 1..Len(b) : RunLength(a, b, i, y) = k})
  IN IF k = 0 THEN [i |-> 0, j |-> 0, k |-> 0] ELSE [i |-> i, j |-> j, k |-> k]

\* the total size of SequenceMatcher.get_matching_blocks: the longest block,
\* then the same to the left and to the right of it
RECURSIVE MatchingSize(_, _)
MatchingSize(a, b) ==
  IF a = <<>> \/ b = <<>> THEN 0
  ELSE LET m == find_longest_match(a, b)
       IN IF m.k = 0 THEN 0
          ELSE m.k + MatchingSize(SubSeq(a, 1, m.i - 1), SubSeq(b, 1, m.j - 1))
                   + MatchingSize(SubSeq(a, m.i + m.k, Len(a)),
                                  SubSeq(b, m.j + m.k, Len(b)))

\* SequenceMatcher(None, a, b).ratio() = 2.0 * matches / length, 1.0 for two
\* empty texts, kept as a fraction
ratio(a, b) ==
  IF Len(a) + Len(b) = 0 THEN [num |-> 1, den |-> 1]
  ELSE [num |-> 2 * MatchingSize(a, b), den |-> Len(a) + Len(b)]

\* x > y on two ratios
RatioGreater(x, y) == x.num * y.den > y.num * x.den

\* best_ratio = 0.0
ZeroRatio == [num |-> 0, den |-> 1]
\* MatchThreshold, were it 69%
MatchThresholdLower == [num |-> 69, den |-> 100]

\* "similarity > 70%"
MatchThreshold == [num |-> 7, den |-> 10]

\* Python's None where an id is expected
None == NullInt

\* the loop of _fuzzy_match_task from the n-th item of todos.items() on
RECURSIVE FuzzyLoop(_, _, _, _, _)
FuzzyLoop(checkbox_lower, items, n, best_match_id, best_ratio) ==
  IF n > Len(items)
     THEN IF RatioGreater(best_ratio, MatchThreshold) THEN best_match_id ELSE None
  ELSE LET title_lower == strip(lower(items[n].title))
           r == ratio(checkbox_lower, title_lower)
       IN IF checkbox_lower = title_lower THEN items[n].id
          ELSE IF \/ Contains(title_lower, checkbox_lower)
                  \/ Contains(checkbox_lower, title_lower) THEN items[n].id
          ELSE IF RatioGreater(r, best_ratio)
             THEN FuzzyLoop(checkbox_lower, items, n + 1, items[n].id, r)
             ELSE FuzzyLoop(checkbox_lower, items, n + 1, best_match_id, best_ratio)

\* _fuzzy_match_task(checkbox_text, todos), todos.items() being items
_fuzzy_match_task(checkbox_text, items) ==
  FuzzyLoop(strip(lower(checkbox_text)), items, 1, None, ZeroRatio)

\* the most candidates of one _fuzzy_match_task call
MaxCandidates == 3

\* titles of todos: at the threshold and to either side of it for one of the
\* checkbox texts, equal to one, holding one, held by one
TitlePool ==
  { <<"c", "a", "l", "l", " ", "t", "a", "x", "e", "s">>, <<"p", "a", "y", " ", "b", "u", "g">>, <<"r", "e", "v", "i", "e", "w", " ", "r", "e", "p", "o", "r", "t">>, <<"P", "a", "y", " ", "B", "o", "b">>,
    <<"p", "a", "y", " ", "b", "o", "b", " ", "t", "o", "d", "a", "y">>, <<"b", "o", "b">>, <<"b", "u", "y", " ", "b", "o", "b", " ">> }

\* display texts of checked lines
CheckboxTexts == { <<"p", "a", "y", " ", "b", "o", "b">>, <<"P", "a", "y", " ", "B", "o", "b">>, <<"f", "i", "l", "e", " ", "t", "a", "x", "e", "s">>, <<"r", "e", "v", "i", "e", "w", " ", "l", "o", "g", "o", "u", "t">> }

\* the orders a query without ORDER BY may return n rows in
Orders(n) == {f \in [1..n -> 1..n] : \A i, j \in 1..n : i # j => f[i] # f[j]}

\* todos.items() of the dict built from rows of ids 1..n returned in order
ItemsInOrder(titles, order) ==
  [k \in 1..Len(order) |-> [id |-> order[k], title |-> titles[order[k]]]]

\* a checkbox text and the dict of active todos, no call made yet
InitMatch ==
  /\ \E n \in 0..MaxCandidates, checkbox_text \in CheckboxTexts :
       \E titles \in {t \in [1..n -> TitlePool] : \A i, j \in 1..n : i # j => t[i] # t[j]},
          order \in Orders(n) :
         args = [checkbox_text |-> checkbox_text, items |-> ItemsInOrder(titles, order)]
  /\ todos = <<>>
  /\ pc = "idle"
  /\ result = None
  /\ first = None
  /\ before = todos
  /\ vault = NoFiles
  /\ vbefore = NoFiles

\* one call of _fuzzy_match_task(checkbox_text, todos)
FuzzyMatch ==
  /\ pc = "idle"
  /\ result' = _fuzzy_match_task(args.checkbox_text, args.items)
  /\ pc' = "matched"
  /\ UNCHANGED <<todos, args, first, before, vault, vbefore>>

SpecMatch == InitMatch /\ [][FuzzyMatch]_vars

----------------------------------------------------------------------------
(* C11 *)

\* the candidates of the last call whose title is the checkbox text but for
\* the case of its letters
ExactCandidates ==
  {n \in 1..Len(args.items) : lower(args.items[n].title) = lower(args.checkbox_text)}

\* the candidates that are no exact match but hold the checkbox text or are
\* held by it
SubstringCandidates ==
  {n \in 1..Len(args.items) \ ExactCandidates :
     \/ Contains(lower(args.items[n].title), lower(args.checkbox_text))
     \/ Contains(lower(args.checkbox_text), lower(args.items[n].title))}

\* C11: precedence is by stage over the whole candidate set: if some
\* candidate's title equals the checkbox text case-insensitively, the call
\* returns a candidate with an exactly equal title, even when a candidate that
\* only contains the text, or is contained in it, comes earlier.
C11_ExactBeforeSubstring ==
  pc = "matched" /\ ExactCandidates # {} =>
    \E n \in ExactCandidates : result = args.items[n].id

----------------------------------------------------------------------------
(* C12 *)

\* the candidates of the last call as _fuzzy_match_task compares them
Lowered(text) == strip(lower(text))

\* no candidate equals, holds or is held by the checkbox text
NoDirectMatch ==
  \A n \in 1..Len(args.items) :
    LET title == Lowered(args.items[n].title)
        text == Lowered(args.checkbox_text)
    IN /\ title # text
       /\ ~Contains(title, text)
       /\ ~Contains(text, title)

\* the similarity of the n-th candidate to the checkbox text
CandidateRatio(n) ==
  ratio(Lowered(args.checkbox_text), Lowered(args.items[n].title))

\* the n-th candidate is as similar as any
IsMostSimilar(n) ==
  \A m \in 1..Len(args.items) : ~RatioGreater(CandidateRatio(m), CandidateRatio(n))

\* C12: when no candidate is an exact or substring match, the call returns the
\* candidate of the highest similarity ratio if and only if that ratio is
\* strictly greater than 0.70, and none otherwise.
C12_BestAboveThreshold ==
  pc = "matched" /\ NoDirectMatch =>
    IF \E n \in 1..Len(args.items) :
         10 * CandidateRatio(n).num > 7 * CandidateRatio(n).den
       THEN \E n \in 1..Len(args.items) :
              /\ result = args.items[n].id
              /\ IsMostSimilar(n)
       ELSE result = None

\* the most similar candidate has a ratio of exactly 0.70 and none is returned
C12_Witness ==
  /\ pc = "matched"
  /\ NoDirectMatch
  /\ Len(args.items) >= 2
  /\ \E n \in 1..Len(args.items) :
       /\ IsMostSimilar(n)
       /\ 10 * CandidateRatio(n).num = 7 * CandidateRatio(n).den
  /\ result = None

----------------------------------------------------------------------------
(* C13 *)

\* the items of the last call, had the rows come in another order
Reordered(items, order) == [k \in 1..Len(items) |-> items[order[k]]]

\* C13: for the same checkbox text and the same set of active (id, title)
\* candidates the same id is returned whatever order the store returns the
\* rows in.
C13_SameIdWhateverOrder ==
  pc = "matched" =>
    \A order \in Orders(Len(args.items)) :
      _fuzzy_match_task(args.checkbox_text, Reordered(args.items, order)) = result

----------------------------------------------------------------------------
(* obsidian.py: the text of a daily note.  A text of several lines is the  *)
(* sequence of its lines ("\n".join and split("\n") between them), the     *)
(* empty text being the one empty line; a character outside ASCII, and    *)
(* the backquote, is named by its code point.                              *)

\* the characters of [\U0001F300-\U0001F9FF] that the notes hold; U+2705 and
\* U+26A1 lie outside of it
PictographChars == {"U+1F4DD", "U+1F3AF", "U+1F525", "U+1F4CB"}
CheckMarkChar == "U+2705"

\* ""
EmptyText == << <<>> >>

\* a line that str.strip() empties
IsBlank(line) == \A i \in 1..Len(line) : IsSpace(line[i])

\* str.strip() on a text of several lines
StripText(lines) ==
  LET inked == {i \in 1..Len(lines) : ~IsBlank(lines[i])}
  IN IF inked = {} THEN EmptyText
     ELSE LET lo == Least(inked)
              hi == Greatest(inked)
          IN [i \in 1..(hi - lo + 1) |->
                IF lo = hi THEN strip(lines[lo])
                ELSE IF i = 1
                   THEN SubSeq(lines[lo], Least({k \in 1..Len(lines[lo]) : ~IsSpace(lines[lo][k])}), Len(lines[lo]))
                ELSE IF i = hi - lo + 1
                   THEN SubSeq(lines[hi], 1, Greatest({k \in 1..Len(lines[hi]) : ~IsSpace(lines[hi][k])}))
                ELSE lines[lo + i - 1]]

\* line[p..] is name, letters compared without case, and then \s* to the end
NameToEnd(line, p, name) ==
  /\ p + Len(name) - 1 <= Len(line)
  /\ lower(SubSeq(line, p, p + Len(name) - 1)) = lower(name)
  /\ \A k \in (p + Len(name))..Len(line) : IsSpace(line[k])

\* re.match(rf"^##\s+(?:[\U0001F300-\U0001F9FF]\s+)?{re.escape(section_name)}\s*$",
\*          line, re.IGNORECASE)
HeadingMatches(line, section_name) ==
  /\ Len(line) >= 3
  /\ line[1] = "#"
  /\ line[2] = "#"
  /\ \E i \in 3..Len(line) :
       /\ \A k \in 3..i : IsSpace(line[k])
       /\ \/ NameToEnd(line, i + 1, section_name)
          \/ /\ i + 1 <= Len(line)
             /\ line[i + 1] \in PictographChars
             /\ \E j \in (i + 2)..Len(line) :
                  /\ \A k \in (i + 2)..j : IsSpace(line[k])
                  /\ NameToEnd(line, j + 1, section_name)

\* (?=^##\s): the line opens with ## and a whitespace character
OpensHeading(line) ==
  /\ Len(line) >= 3
  /\ line[1] = "#"
  /\ line[2] = "#"
  /\ IsSpace(line[3])

\* Python's None where a text is expected
NoText == NULL

\* _extract_section(content, section_name): the lines after the first heading
\* of that name that has a line after it, up to the next line opening a
\* heading, stripped; None if there is no such heading
_extract_section(content, section_name) ==
  LET heads == {h \in 1..(Len(content) - 1) : HeadingMatches(content[h], section_name)}
  IN IF heads = {} THEN NoText
     ELSE LET h == Least(heads)
              ends == {e \in (h + 1)..Len(content) : OpensHeading(content[e])}
              e == IF ends = {} THEN Len(content) + 1 ELSE Least(ends)
          IN StripText(SubSeq(content, h + 1, e - 1))


\* c is one of the characters of s
InSeq(c, s) == \E k \in 1..Len(s) : s[k] = c

\* \w of a pattern on str
IsWord(c) == InSeq(c, UpperChars) \/ InSeq(c, LowerChars) \/ InSeq(c, DigitChars) \/ c = "_"

\* the index of the last character of the run of [-\w] that begins at p
RECURSIVE TagTail(_, _)
TagTail(s, p) ==
  IF p <= Len(s) /\ (IsWord(s[p]) \/ s[p] = "-") THEN TagTail(s, p + 1) ELSE p - 1

\* where a match of #\w+[-\w]* that begins at p ends, 0 if there is none
TagEnd(s, p) ==
  IF p + 1 <= Len(s) /\ s[p] = "#" /\ IsWord(s[p + 1]) THEN TagTail(s, p + 2) ELSE 0

\* re.findall(r"#(\w+[-\w]*)", task_text) from index p on
RECURSIVE FindTags(_, _)
FindTags(s, p) ==
  IF p > Len(s) THEN <<>>
  ELSE LET e == TagEnd(s, p)
       IN IF e > 0 THEN <<SubSeq(s, p + 1, e)>> \o FindTags(s, e + 1)
          ELSE FindTags(s, p + 1)

\* the first index from p on that holds no whitespace
RECURSIVE SkipSpaces(_, _)
SkipSpaces(s, p) ==
  IF p <= Len(s) /\ IsSpace(s[p]) THEN SkipSpaces(s, p + 1) ELSE p

\* re.sub(r"\s*#\w+[-\w]*", "", task_text) from index p on
RECURSIVE RemoveTags(_, _)
RemoveTags(s, p) ==
  IF p > Len(s) THEN <<>>
  ELSE LET q == SkipSpaces(s, p)
           e == IF q <= Len(s) THEN TagEnd(s, q) ELSE 0
       IN IF e > 0 THEN RemoveTags(s, e + 1)
          ELSE <<s[p]>> \o RemoveTags(s, p + 1)

\* IsCheckbox with a pattern that also takes an upper-case X
IsCheckboxAnyCase(raw) ==
  /\ Len(raw) >= 7
  /\ SubSeq(raw, 1, 3) = <<"-", " ", "[">>
  /\ raw[4] \in {" ", "x", "X"}
  /\ SubSeq(raw, 5, 6) = <<"]", " ">>

\* re.match(r"^- \[([ x])\] (.+)$", raw)
IsCheckbox(raw) ==
  /\ Len(raw) >= 7
  /\ SubSeq(raw, 1, 3) = <<"-", " ", "[">>
  /\ raw[4] \in {" ", "x"}
  /\ SubSeq(raw, 5, 6) = <<"]", " ">>

\* priority from the tags
TagPriority(tags) ==
  IF InSeq(<<"h", "i", "g", "h", "-", "p", "r", "i", "o", "r", "i", "t", "y">>, tags) \/ InSeq(<<"u", "r", "g", "e", "n", "t">>, tags) THEN "high"
  ELSE IF InSeq(<<"l", "o", "w", "-", "p", "r", "i", "o", "r", "i", "t", "y">>, tags) THEN "low"
  ELSE "medium"

\* the dict _extract_tasks appends for a line the pattern matches
TaskOfLine(line) ==
  LET raw == strip(line)
      task_text == strip(SubSeq(raw, 7, Len(raw)))
      tags == FindTags(task_text, 1)
  IN [text |-> strip(RemoveTags(task_text, 1)),
      completed |-> raw[4] = "x",
      priority |-> TagPriority(tags),
      tags |-> tags,
      raw |-> raw]

RECURSIVE TasksFrom(_, _)
TasksFrom(lines, i) ==
  IF i > Len(lines) THEN <<>>
  ELSE IF IsCheckbox(strip(lines[i])) THEN <<TaskOfLine(lines[i])>> \o TasksFrom(lines, i + 1)
  ELSE TasksFrom(lines, i + 1)

\* the second section name _extract_tasks tries, as the source file spells it
StyledTasksName == <<"U+00E2", "U+0153", "U+2026", " ", "T", "a", "s", "k", "s">>

\* _extract_tasks(content)
_extract_tasks(content) ==
  LET plain == _extract_section(content, <<"T", "a", "s", "k", "s">>)
      task_section == IF plain = NoText \/ plain = EmptyText
                         THEN _extract_section(content, StyledTasksName)
                         ELSE plain
  IN IF task_section = NoText \/ task_section = EmptyText THEN <<>>
     ELSE TasksFrom(task_section, 1)


\* line.startswith("- ") or line.startswith("* ")
IsListItem(raw) == Len(raw) >= 2 /\ raw[1] \in {"-", "*"} /\ raw[2] = " "

\* re.sub(r"^[-*] (\[x\] )?", "", raw).strip()
ItemText(raw) ==
  IF Len(raw) >= 6 /\ SubSeq(raw, 3, 6) = <<"[", "x", "]", " ">>
     THEN strip(SubSeq(raw, 7, Len(raw)))
     ELSE strip(SubSeq(raw, 3, Len(raw)))

\* text.startswith("<!--")
IsComment(text) == Len(text) >= 4 /\ SubSeq(text, 1, 4) = <<"<", "!", "-", "-">>

RECURSIVE AccomplishmentsFrom(_, _)
AccomplishmentsFrom(lines, i) ==
  IF i > Len(lines) THEN <<>>
  ELSE LET raw == strip(lines[i])
       IN IF IsListItem(raw) /\ ItemText(raw) # <<>> /\ ~IsComment(ItemText(raw))
             THEN <<ItemText(raw)>> \o AccomplishmentsFrom(lines, i + 1)
             ELSE AccomplishmentsFrom(lines, i + 1)

\* the second section name _extract_accomplishments tries, as the source file
\* spells it
StyledAccomplishmentsName == <<"U+00F0", "U+0178", "U+2019", "U+00AA", " ", "A", "c", "c", "o", "m", "p", "l", "i", "s", "h", "m", "e", "n", "t", "s">>

\* _extract_accomplishments(content)
_extract_accomplishments(content) ==
  LET plain == _extract_section(content, <<"A", "c", "c", "o", "m", "p", "l", "i", "s", "h", "m", "e", "n", "t", "s">>)
      section == IF plain = NoText \/ plain = EmptyText
                    THEN _extract_section(content, StyledAccomplishmentsName)
                    ELSE plain
  IN IF section = NoText \/ section = EmptyText THEN <<>>
     ELSE AccomplishmentsFrom(section, 1)


----------------------------------------------------------------------------
(* obsidian.py: the vault.  A note file is its frontmatter and the text    *)
(* after it; the vault maps the paths of the files that exist to them.     *)

\* get_daily_note_path(date), relative to the vault, with the default format
get_daily_note_path(d) == <<"D", "a", "i", "l", "y", " ", "N", "o", "t", "e", "s", "/">> \o isoformat(d) \o <<".", "m", "d">>

\* daily_note_exists(date)
daily_note_exists(v, d) == get_daily_note_path(d) \in DOMAIN v

\* frontmatter.load(f): the metadata and the stripped text after it
Load(file) == [metadata |-> file.metadata, content |-> StripText(file.content)]

\* read_daily_note(date), None if the note does not exist
read_daily_note(v, d) ==
  IF ~daily_note_exists(v, d) THEN NULL
  ELSE LET post == Load(v[get_daily_note_path(d)])
       IN [path |-> get_daily_note_path(d), metadata |-> post.metadata,
           content |-> post.content, tasks |-> _extract_tasks(post.content),
           accomplishments |-> _extract_accomplishments(post.content)]

----------------------------------------------------------------------------
(* daily_notes.py: _sync_completed_tasks and the tool sync_daily_note. *)

\* the ids of the rows SELECT id, title FROM todos WHERE status = 'active' returns
ActiveIds(T) == {i \in DOMAIN T : T[i].status = "active"}

\* the orders the query, which has no ORDER BY, may return them in
FetchOrders(T) ==
  {o \in [1..Cardinality(ActiveIds(T)) -> ActiveIds(T)] :
     \A i, j \in DOMAIN o : i # j => o[i] # o[j]}

\* active_todos.items() for the rows returned in order o
ActiveItems(T, o) == [k \in 1..Len(o) |-> [id |-> o[k], title |-> T[o[k]].title]]

\* the title active_todos[matched_id]
TitleOfId(items, id) == items[CHOOSE k \in 1..Len(items) : items[k].id = id].title

\* `if matched_id:`
Truthy(matched_id) == matched_id # None /\ matched_id # 0

\* UPDATE todos SET status = 'completed', completed_at = ? WHERE id = ?
MarkCompleted(T, id, now) ==
  [i \in DOMAIN T |->
     IF i = id THEN [T[i] EXCEPT !.status = "completed", !.completed_at = now]
     ELSE T[i]]

\* the loop of _sync_completed_tasks from the i-th completed checkbox on
RECURSIVE SyncLoop(_, _, _, _, _)
\* SyncLoop, were an unmatched checkbox to end the batch
SyncLoopAborting(checkboxes, i, items, now, acc) ==
  IF i > Len(checkboxes) THEN acc
  ELSE LET checkbox_text == checkboxes[i].text
           matched_id == _fuzzy_match_task(checkbox_text, items)
       IN IF Truthy(matched_id)
             THEN SyncLoop(checkboxes, i + 1, items, now,
                    [todos |-> MarkCompleted(acc.todos, matched_id, now),
                     completed_tasks |-> Append(acc.completed_tasks, TitleOfId(items, matched_id)),
                     warnings |-> acc.warnings])
             ELSE [acc EXCEPT !.warnings = Append(acc.warnings, checkbox_text)]

SyncLoop(checkboxes, i, items, now, acc) ==
  IF i > Len(checkboxes) THEN acc
  ELSE LET checkbox_text == checkboxes[i].text
           matched_id == _fuzzy_match_task(checkbox_text, items)
       IN IF Truthy(matched_id)
             THEN SyncLoop(checkboxes, i + 1, items, now,
                    [todos |-> MarkCompleted(acc.todos, matched_id, now),
                     completed_tasks |-> Append(acc.completed_tasks, TitleOfId(items, matched_id)),
                     warnings |-> acc.warnings])
             ELSE SyncLoop(checkboxes, i + 1, items, now,
                    [acc EXCEPT !.warnings = Append(acc.warnings, checkbox_text)])

IsCompleted(task) == task.completed

\* the completed checkboxes of the note of a date, none if there is no note
CompletedCheckboxes(v, d) ==
  IF ~daily_note_exists(v, d) THEN <<>>
  ELSE SelectSeq(read_daily_note(v, d).tasks, IsCompleted)

\* _sync_completed_tasks(vault, target_date, db): the table after it and the
\* lists it returns, the active rows fetched in order o, the clock at now
_sync_completed_tasks(v, target_date, T, o, now) ==
  LET completed_checkboxes == CompletedCheckboxes(v, target_date)
  IN IF completed_checkboxes = <<>>
        THEN [todos |-> T, completed_tasks |-> <<>>, warnings |-> <<>>]
     ELSE SyncLoop(completed_checkboxes, 1, ActiveItems(T, o), now,
                   [todos |-> T, completed_tasks |-> <<>>, warnings |-> <<>>])

\* the dict _sync_completed_tasks returns
SyncResult(r) ==
  [completed_count |-> Len(r.completed_tasks), completed_tasks |-> r.completed_tasks,
   warnings |-> r.warnings]

\* the most checkbox lines of a note and the most rows of the table
MaxBoxes == 2
MaxBacklog == 2

\* the clock when sync_daily_note runs
SyncNow == 9

\* the lines of a Tasks section: checked and matching a title, checked and
\* matching none, not checked, checked with tags and padding
TaskLinePool ==
  { <<"-", " ", "[", "x", "]", " ", "p", "a", "y", " ", "b", "o", "b">>, <<"-", " ", "[", "x", "]", " ", "f", "i", "l", "e", " ", "t", "a", "x", "e", "s">>, <<"-", " ", "[", " ", "]", " ", "c", "a", "l", "l", " ", "t", "a", "x", "e", "s">>,
    <<" ", " ", "-", " ", "[", "x", "]", " ", " ", "R", "e", "v", "i", "e", "w", " ", "R", "e", "p", "o", "r", "t", " ", "#", "u", "r", "g", "e", "n", "t", " ">> }

\* headings of the Tasks section, plain and as create_daily_note writes it
TaskHeadings == { <<"#", "#", " ", "T", "a", "s", "k", "s">>, <<"#", "#", " ", "U+00E2", "U+0153", "U+2026", " ", "T", "a", "s", "k", "s">> }

SyncTitles == { <<"p", "a", "y", " ", "b", "o", "b", " ", "t", "o", "d", "a", "y">>, <<"P", "a", "y", " ", "B", "o", "b">>, <<"r", "e", "v", "i", "e", "w", " ", "r", "e", "p", "o", "r", "t">>, <<"c", "a", "l", "l", " ", "t", "a", "x", "e", "s">> }

\* the frontmatter create_daily_note writes, but for the day of the week
NoteMetadata(d) == [date |-> isoformat(d), type |-> <<"d", "a", "i", "l", "y", "-", "n", "o", "t", "e">>]

SyncRow(i, title, status) ==
  [MakeRow(i, Kind("medium", NULL, NullInt, 0, status, NULL)) EXCEPT !.title = title]

\* a table, and a vault with the note of one date, no call made yet
InitSync ==
  /\ \E n \in 0..MaxBacklog :
       \E titles \in [1..n -> SyncTitles], completed \in SUBSET (1..n) :
         /\ \A i \in 1..n : i \in completed => i = 1
         /\ todos = [i \in 1..n |->
                       SyncRow(i, titles[i], IF i \in completed THEN "completed" ELSE "active")]
  /\ \E d \in TargetDates, heading \in TaskHeadings, m \in 1..MaxBoxes :
       \E lines \in [1..m -> TaskLinePool] :
         vault = (get_daily_note_path(d) :>
                    [metadata |-> NoteMetadata(d), content |-> <<heading>> \o lines])
  /\ pc = "idle"
  /\ args = NoArgs
  /\ result = SyncResult([completed_tasks |-> <<>>, warnings |-> <<>>])
  /\ first = NoResult
  /\ before = todos
  /\ vbefore = vault

\* the tool sync_daily_note(date_str), date_str the YYYY-MM-DD of target_date
SyncDailyNote ==
  /\ pc = "idle"
  /\ \E target_date \in TargetDates, o \in FetchOrders(todos) :
       LET r == _sync_completed_tasks(vault, target_date, todos, o, SyncNow)
       IN /\ todos' = r.todos
          /\ result' = SyncResult(r)
          /\ args' = [target_date |-> target_date, order |-> o]
  /\ before' = todos
  /\ pc' = "synced"
  /\ UNCHANGED <<first, vault, vbefore>>

SpecSync == InitSync /\ [][SyncDailyNote]_vars

\* C14: in _sync_completed_tasks a completed checkbox that matches no task goes
\* to warnings and does not end the batch: every completed checkbox of the
\* note ends up in exactly one of completed_tasks and warnings, in the order
\* of the note, and the task a checkbox matches is completed also when an
\* unmatched checkbox comes before it.
MatchesOf(boxes, items) ==
  [k \in 1..Len(boxes) |-> _fuzzy_match_task(boxes[k].text, items)]

C14_UnmatchedNeverAborts ==
  pc = "synced" =>
    LET boxes == CompletedCheckboxes(vault, args.target_date)
        match == MatchesOf(boxes, ActiveItems(before, args.order))
        matched == {k \in 1..Len(boxes) : match[k] # None}
        unmatched == {k \in 1..Len(boxes) : match[k] = None}
    IN /\ Len(result.completed_tasks) = Cardinality(matched)
       /\ Len(result.warnings) = Cardinality(unmatched)
       /\ \A k \in unmatched :
            result.warnings[Cardinality({j \in unmatched : j <= k})] = boxes[k].text
       /\ \A k \in matched :
            /\ result.completed_tasks[Cardinality({j \in matched : j <= k})]
                 = before[match[k]].title
            /\ todos[match[k]].status = "completed"

\* an unmatched checkbox, and after it one whose task was active and is completed
C14_Witness ==
  /\ pc = "synced"
  /\ Len(result.warnings) = 1
  /\ Len(result.completed_tasks) = 1
  /\ LET boxes == CompletedCheckboxes(vault, args.target_date)
         match == MatchesOf(boxes, ActiveItems(before, args.order))
     IN /\ Len(boxes) = 2
        /\ match[1] = None
        /\ match[2] # None
        /\ before[match[2]].status = "active"
        /\ todos[match[2]].status = "completed"


----------------------------------------------------------------------------
(* Creating a note: ObsidianVault.create_daily_note, the tool               *)
(* create_daily_note and start_my_day.                                      *)

IsLeap(y) == (y % 4 = 0 /\ y % 100 # 0) \/ y % 400 = 0

DaysInMonth(y, m) ==
  IF m = 2 THEN (IF IsLeap(y) THEN 29 ELSE 28)
  ELSE IF m \in {4, 6, 9, 11} THEN 30 ELSE 31

RECURSIVE DaysBeforeMonth(_, _)
DaysBeforeMonth(y, m) ==
  IF m = 1 THEN 0 ELSE DaysBeforeMonth(y, m - 1) + DaysInMonth(y, m - 1)

\* date.toordinal()
toordinal(d) ==
  LET y == d.year - 1
  IN y * 365 + y \div 4 - y \div 100 + y \div 400 + DaysBeforeMonth(d.year, d.month) + d.day

DayNames ==
  << <<"M", "o", "n", "d", "a", "y">>, <<"T", "u", "e", "s", "d", "a", "y">>, <<"W", "e", "d", "n", "e", "s", "d", "a", "y">>, <<"T", "h", "u", "r", "s", "d", "a", "y">>, <<"F", "r", "i", "d", "a", "y">>,
     <<"S", "a", "t", "u", "r", "d", "a", "y">>, <<"S", "u", "n", "d", "a", "y">> >>

\* date.strftime("%A")
day_name(d) == DayNames[((toordinal(d) + 6) % 7) + 1]

\* date.strftime("%B %d, %Y")
full_date(d) == MonthNames[d.month] \o <<" ">> \o Pad2(d.day) \o <<",", " ">> \o Pad4(d.year)

\* target_date - timedelta(days=1)
DayBefore(d) ==
  IF d.day > 1 THEN [d EXCEPT !.day = d.day - 1]
  ELSE IF d.month > 1
     THEN [year |-> d.year, month |-> d.month - 1, day |-> DaysInMonth(d.year, d.month - 1)]
  ELSE [year |-> d.year - 1, month |-> 12, day |-> 31]

\* str(n) of an int that is not negative
RECURSIVE IntText(_)
IntText(n) == IF n < 10 THEN <<Digit(n)>> ELSE IntText(n \div 10) \o <<Digit(n % 10)>>

\* datetime.now().strftime('%I:%M%p').lower()
ClockText(t) ==
  Pad2(((t.hour + 11) % 12) + 1) \o <<":">> \o Pad2(t.minute)
    \o (IF t.hour < 12 THEN <<"a", "m">> ELSE <<"p", "m">>)

\* "\n".join(parts), each part a text
RECURSIVE JoinParts(_)
JoinParts(parts) ==
  IF parts = <<>> THEN <<>> ELSE Head(parts) \o JoinParts(Tail(parts))

\* str.rstrip() on a text of several lines
RStripText(lines) ==
  LET inked == {i \in 1..Len(lines) : ~IsBlank(lines[i])}
  IN IF inked = {} THEN EmptyText
     ELSE LET hi == Greatest(inked)
          IN [i \in 1..hi |->
                IF i = hi
                   THEN SubSeq(lines[hi], 1, Greatest({k \in 1..Len(lines[hi]) : ~IsSpace(lines[hi][k])}))
                   ELSE lines[i]]

\* the file that holds frontmatter.dumps(post): the text is stripped as a
\* whole, the metadata block comes first
Dump(post) == [metadata |-> post.metadata, content |-> RStripText(post.content)]

\* a vault with the file at path written or replaced
WithFile(v, path, file) ==
  [p \in DOMAIN v \cup {path} |-> IF p = path THEN file ELSE v[p]]

\* a vault with the file at path removed
WithoutFile(v, path) == [p \in DOMAIN v \ {path} |-> v[p]]

\* note_path.with_suffix(".tmp")
TempPath(path) == SubSeq(path, 1, Len(path) - 3) \o <<".", "t", "m", "p">>

\* the metadata both creating functions build
CreatedMetadata(d) ==
  [date |-> isoformat(d), type |-> <<"d", "a", "i", "l", "y", "-", "n", "o", "t", "e">>, day_of_week |-> lower(day_name(d))]

\* "- [ ] {task}" for each task
RECURSIVE UncheckedLines(_)
UncheckedLines(tasks) ==
  IF tasks = <<>> THEN <<>>
  ELSE <<<<"-", " ", "[", " ", "]", " ">> \o Head(tasks)>> \o UncheckedLines(Tail(tasks))

\* body of ObsidianVault.create_daily_note; focus, quick_win and context are
\* texts or None, tasks a list of lines or None
CreatedBody(d, focus, quick_win, tasks, context, clock) ==
  <<<<"#", " ">> \o day_name(d) \o <<",", " ">> \o full_date(d), <<>>>>
  \o <<<<"#", "#", " ", "U+00F0", "U+0178", "U+017D", "U+00AF", " ", "F", "o", "c", "u", "s", " ", "f", "o", "r", " ", "T", "o", "d", "a", "y">>>>
  \o (IF focus # NoText /\ focus # EmptyText THEN focus
      ELSE <<<<"<", "!", "-", "-", " ", "W", "h", "a", "t", "'", "s", " ", "y", "o", "u", "r", " ", "m", "a", "i", "n", " ", "g", "o", "a", "l", " ", "f", "o", "r", " ", "t", "o", "d", "a", "y", "?", " ", "-", "-", ">">>>>)
  \o << <<>> >>
  \o (IF quick_win # NoText /\ quick_win # EmptyText
         THEN <<<<"#", "#", " ", "U+00E2", "U+0161", "U+00A1", " ", "Q", "u", "i", "c", "k", " ", "W", "i", "n", " ", "(", "S", "t", "a", "r", "t", " ", "H", "e", "r", "e", ")">>>>
              \o <<<<"-", " ", "[", " ", "]", " ">> \o quick_win[1]>> \o Tail(quick_win) \o << <<>> >>
         ELSE <<>>)
  \o <<<<"#", "#", " ", "U+00E2", "U+0153", "U+2026", " ", "T", "a", "s", "k", "s">>>>
  \o (IF tasks # NoText /\ tasks # <<>> THEN UncheckedLines(tasks)
      ELSE <<<<"<", "!", "-", "-", " ", "T", "a", "s", "k", "s", " ", "w", "i", "l", "l", " ", "a", "p", "p", "e", "a", "r", " ", "h", "e", "r", "e", " ", "-", "-", ">">>>>)
  \o << <<>> >>
  \o <<<<"#", "#", " ", "U+00F0", "U+0178", "U+2019", "U+00AA", " ", "A", "c", "c", "o", "m", "p", "l", "i", "s", "h", "m", "e", "n", "t", "s">>>>
  \o <<<<"<", "!", "-", "-", " ", "Y", "o", "u", "'", "l", "l", " ", "a", "d", "d", " ", "y", "o", "u", "r", " ", "w", "i", "n", "s", " ", "h", "e", "r", "e", " ", "a", "s", " ", "y", "o", "u", " ", "c", "o", "m", "p", "l", "e", "t", "e", " ", "t", "h", "i", "n", "g", "s", "!", " ", "-", "-", ">">>>>
  \o << <<>> >>
  \o <<<<"#", "#", " ", "U+00F0", "U+0178", "U+201C", " ", "N", "o", "t", "e", "s">>, <<>>, <<>>>>
  \o (IF context # NoText /\ context # EmptyText
         THEN <<<<"#", "#", " ", "U+00F0", "U+0178", "U+00A7", "U+00A0", " ", "C", "o", "a", "c", "h", " ", "A", "I", " ", "I", "n", "s", "i", "g", "h", "t", "s">>>>
              \o <<<<"C", "r", "e", "a", "t", "e", "d", ":", " ">> \o ClockText(clock), <<>>>> \o context \o << <<>> >>
         ELSE <<>>)

\* ObsidianVault.create_daily_note, were it to write whether or not the note exists
create_daily_note_overwriting(v, d, focus, quick_win, tasks, context, clock) ==
  WithFile(v, get_daily_note_path(d),
           Dump([metadata |-> CreatedMetadata(d),
                 content |-> CreatedBody(d, focus, quick_win, tasks, context, clock)]))

\* ObsidianVault.create_daily_note(date, focus, quick_win, tasks, context): the
\* vault after it, the temporary file written and renamed
create_daily_note(v, d, focus, quick_win, tasks, context, clock) ==
  IF daily_note_exists(v, d) THEN v
  ELSE WithFile(v, get_daily_note_path(d),
                Dump([metadata |-> CreatedMetadata(d),
                      content |-> CreatedBody(d, focus, quick_win, tasks, context, clock)]))


\* str(n)
SignedText(n) == IF n < 0 THEN <<"-">> \o IntText(0 - n) ELSE IntText(n)

\* the lines of one task of the critical section: the checkbox and, if the
\* task has notes that are not blank, the notes as a quotation
CriticalTaskLines(task) ==
  <<<<"-", " ", "[", " ", "]", " ">> \o task.title>>
  \o (IF task.notes # NULL /\ task.notes # <<>> /\ ~IsBlank(task.notes)
         THEN <<<<" ", " ", ">", " ">> \o task.notes>> ELSE <<>>)

\* the line of one task of the quick wins section
QuickTaskLine(task) ==
  <<"-", " ", "[", " ", "]", " ">> \o task.title
  \o (IF task.time_estimate # NullInt /\ task.time_estimate # 0
         THEN <<" ", "U+0060">> \o SignedText(task.time_estimate) \o <<"m", "i", "n", "U+0060">> ELSE <<>>)

RECURSIVE CriticalLines(_)
CriticalLines(tasks) ==
  IF tasks = <<>> THEN <<>> ELSE CriticalTaskLines(Head(tasks)) \o CriticalLines(Tail(tasks))

\* the text _create_daily_note_with_tasks builds from the selection
SelectedBody(d, selected) ==
  LET total_selected == Len(selected.critical) + Len(selected.important) + Len(selected.quick_wins)
      remaining == selected.backlog_count - total_selected
  IN <<<<"#", " ">> \o day_name(d) \o <<",", " ">> \o full_date(d), <<>>>>
     \o (IF selected.critical # <<>>
            THEN <<<<"#", "#", " ", "U+1F3AF", " ", "T", "o", "d", "a", "y", "'", "s", " ", "F", "o", "c", "u", "s", " ", "(", "P", "i", "c", "k", " ", "1", ")">>, <<>>>>
                 \o CriticalLines(selected.critical) \o << <<>> >>
            ELSE <<>>)
     \o (IF selected.important # <<>>
            THEN <<<<"#", "#", " ", "U+1F525", " ", "I", "m", "p", "o", "r", "t", "a", "n", "t", " ", "(", "P", "i", "c", "k", " ", "1", "-", "2", ")">>, <<>>>>
                 \o [k \in 1..Len(selected.important) |-> <<"-", " ", "[", " ", "]", " ">> \o selected.important[k].title]
                 \o << <<>> >>
            ELSE <<>>)
     \o (IF selected.quick_wins # <<>>
            THEN <<<<"#", "#", " ", "U+26A1", " ", "Q", "u", "i", "c", "k", " ", "W", "i", "n", "s", " ", "(", "E", "n", "e", "r", "g", "y", " ", "P", "e", "r", "m", "i", "t", "t", "i", "n", "g", ")">>, <<>>>>
                 \o [k \in 1..Len(selected.quick_wins) |-> QuickTaskLine(selected.quick_wins[k])]
                 \o << <<>> >>
            ELSE <<>>)
     \o <<<<"#", "#", " ", "U+1F4CB", " ", "B", "a", "c", "k", "l", "o", "g">>, <<>>,
          <<"<", "!", "-", "-", " ">> \o SignedText(remaining) \o <<" ", "t", "a", "s", "k", "s", " ", "r", "e", "m", "a", "i", "n", "i", "n", "g", " ", "-", " ", "r", "u", "n", " ", "s", "y", "n", "c", "_", "d", "a", "i", "l", "y", "_", "n", "o", "t", "e", " ", "t", "o", " ", "u", "p", "d", "a", "t", "e", " ", "-", "-", ">">>,
          <<>>>>
     \o <<<<"#", "#", " ", "U+1F4DD", " ", "N", "o", "t", "e", "s">>, <<>>, <<>>>>
     \o <<<<"#", "#", " ", "U+2705", " ", "C", "o", "m", "p", "l", "e", "t", "e", "d", " ", "T", "o", "d", "a", "y">>, <<>>, <<"<", "!", "-", "-", " ", "C", "o", "m", "p", "l", "e", "t", "e", "d", " ", "t", "a", "s", "k", "s", " ", "w", "i", "l", "l", " ", "a", "p", "p", "e", "a", "r", " ", "h", "e", "r", "e", " ", "-", "-", ">">>, <<>>>>

\* _create_daily_note_with_tasks(vault, target_date, selected): the vault
\* after open(note_path, "w") and the write
_create_daily_note_with_tasks(v, d, selected) ==
  WithFile(v, get_daily_note_path(d),
           Dump([metadata |-> CreatedMetadata(d), content |-> SelectedBody(d, selected)]))

IsIncomplete(task) == ~task.completed

\* yesterday_tasks of the tool create_daily_note
YesterdayTasks(v, d) ==
  IF d.day > 1 /\ daily_note_exists(v, [d EXCEPT !.day = d.day - 1])
     THEN LET open == SelectSeq(read_daily_note(v, [d EXCEPT !.day = d.day - 1]).tasks, IsIncomplete)
          IN [k \in 1..Len(open) |-> open[k].text]
     ELSE <<>>

\* ', '.join(texts)
RECURSIVE CommaJoin(_)
CommaJoin(texts) ==
  IF texts = <<>> THEN <<>>
  ELSE IF Len(texts) = 1 THEN texts[1]
  ELSE texts[1] \o <<",", " ">> \o CommaJoin(Tail(texts))

\* the tasks list of the tool create_daily_note
ToolTasks(yesterday_tasks, goals) ==
  (IF yesterday_tasks # <<>>
      THEN <<<<"#", "#", "#", " ", "C", "a", "r", "r", "i", "e", "d", " ", "O", "v", "e", "r", " ", "f", "r", "o", "m", " ", "Y", "e", "s", "t", "e", "r", "d", "a", "y">>>>
           \o SubSeq(yesterday_tasks, 1, Min(3, Len(yesterday_tasks))) \o << <<>> >>
      ELSE <<>>)
  \o (IF goals # <<>>
         THEN <<<<"#", "#", "#", " ", "F", "r", "o", "m", " ", "Y", "o", "u", "r", " ", "G", "o", "a", "l", "s">>>>
              \o [k \in 1..Len(goals) |->
                    <<"W", "o", "r", "k", " ", "o", "n", ":", " ">> \o goals[k].goal \o <<" ", "(">> \o goals[k].timeframe \o <<")">>]
              \o << <<>> >>
         ELSE <<>>)
  \o <<<<"#", "#", "#", " ", "L", "o", "w", "-", "E", "f", "f", "o", "r", "t", " ", "T", "a", "s", "k", "s">>, <<"<", "!", "-", "-", " ", "A", "d", "d", " ", "e", "a", "s", "y", " ", "t", "a", "s", "k", "s", " ", "f", "o", "r", " ", "l", "o", "w", "-", "e", "n", "e", "r", "g", "y", " ", "m", "o", "m", "e", "n", "t", "s", " ", "-", "-", ">">>>>

\* the focus of the tool create_daily_note
ToolFocus(yesterday_tasks, goals) ==
  IF yesterday_tasks # <<>>
     THEN <<<<"*", "*", "M", "a", "i", "n", " ", "G", "o", "a", "l", ":", "*", "*", " ", "C", "o", "n", "t", "i", "n", "u", "e", " ", "m", "o", "m", "e", "n", "t", "u", "m", " ", "f", "r", "o", "m", " ", "y", "e", "s", "t", "e", "r", "d", "a", "y">>,
            <<"*", "*", "B", "a", "c", "k", "u", "p", " ", "G", "o", "a", "l", ":", "*", "*", " ", "I", "f", " ", "s", "t", "u", "c", "k", ",", " ", "w", "o", "r", "k", " ", "o", "n", " ", "g", "o", "a", "l", "s", " ", "i", "n", "s", "t", "e", "a", "d">>>>
  ELSE IF goals # <<>>
     THEN <<<<"*", "*", "M", "a", "i", "n", " ", "G", "o", "a", "l", ":", "*", "*", " ">> \o goals[1].goal,
            <<"*", "*", "B", "a", "c", "k", "u", "p", " ", "G", "o", "a", "l", ":", "*", "*", " ", "M", "a", "k", "e", " ", "p", "r", "o", "g", "r", "e", "s", "s", " ", "o", "n", " ", "a", "n", "y", " ", "a", "c", "t", "i", "v", "e", " ", "g", "o", "a", "l">>>>
  ELSE <<<<"*", "*", "M", "a", "i", "n", " ", "G", "o", "a", "l", ":", "*", "*", " ", "D", "e", "f", "i", "n", "e", " ", "y", "o", "u", "r", " ", "p", "r", "i", "o", "r", "i", "t", "i", "e", "s", " ", "f", "o", "r", " ", "t", "o", "d", "a", "y">>,
         <<"*", "*", "B", "a", "c", "k", "u", "p", " ", "G", "o", "a", "l", ":", "*", "*", " ", "R", "e", "v", "i", "e", "w", " ", "a", "n", "d", " ", "s", "e", "t", " ", "y", "o", "u", "r", " ", "g", "o", "a", "l", "s">>>>

is_late_start(clock) == clock.hour > 10
is_monday(d) == day_name(d) = <<"M", "o", "n", "d", "a", "y">>

\* the quick win of the tool create_daily_note
ToolQuickWin(d, clock) ==
  IF is_late_start(clock) \/ is_monday(d)
     THEN <<<<"O", "p", "e", "n", " ", "y", "o", "u", "r", " ", "t", "o", "d", "o", " ", "l", "i", "s", "t", " ", "a", "n", "d", " ", "r", "e", "a", "d", " ", "t", "h", "r", "o", "u", "g", "h", " ", "i", "t", " ", "(", "j", "u", "s", "t", " ", "l", "o", "o", "k", ",", " ", "d", "o", "n", "'", "t", " ", "d", "o", " ", "a", "n", "y", "t", "h", "i", "n", "g", " ", "y", "e", "t", ")">>>>
     ELSE <<<<"R", "e", "v", "i", "e", "w", " ", "y", "e", "s", "t", "e", "r", "d", "a", "y", "'", "s", " ", "a", "c", "c", "o", "m", "p", "l", "i", "s", "h", "m", "e", "n", "t", "s", " ", "a", "n", "d", " ", "c", "h", "o", "o", "s", "e", " ", "y", "o", "u", "r", " ", "f", "i", "r", "s", "t", " ", "t", "a", "s", "k">>>>

\* the context of the tool create_daily_note
ToolContext(v, d, yesterday_tasks, goals, facts, clock) ==
  (IF ~daily_note_exists(v, d)
      THEN <<<<"I", " ", "n", "o", "t", "i", "c", "e", "d", " ", "y", "o", "u", " ", "h", "a", "v", "e", "n", "'", "t", " ", "c", "r", "e", "a", "t", "e", "d", " ", "y", "o", "u", "r", " ", "d", "a", "i", "l", "y", " ", "n", "o", "t", "e", " ", "y", "e", "t", ",", " ", "s", "o", " ", "I", " ", "d", "i", "d", " ", "i", "t", " ", "f", "o", "r", " ", "y", "o", "u", ".">>>>
      ELSE <<>>)
  \o (IF yesterday_tasks # <<>>
         THEN <<<<"I", " ", "p", "u", "l", "l", "e", "d", " ", "i", "n", " ">> \o IntText(Len(yesterday_tasks)) \o <<" ", "i", "n", "c", "o", "m", "p", "l", "e", "t", "e", " ", "t", "a", "s", "k", "s", " ", "f", "r", "o", "m", " ", "y", "e", "s", "t", "e", "r", "d", "a", "y", ".">>>>
         ELSE <<>>)
  \o (IF goals # <<>>
         THEN <<<<"I", " ", "a", "d", "d", "e", "d", " ", "t", "a", "s", "k", "s", " ", "r", "e", "l", "a", "t", "e", "d", " ", "t", "o", " ", "y", "o", "u", "r", " ", "a", "c", "t", "i", "v", "e", " ", "g", "o", "a", "l", "s", ":", " ">>
                \o CommaJoin([k \in 1..Min(2, Len(goals)) |-> goals[k].goal]) \o <<".">>>>
         ELSE <<>>)
  \o (IF facts # <<>>
         THEN << <<>>, <<"*", "*", "W", "h", "a", "t", " ", "I", " ", "k", "n", "o", "w", " ", "a", "b", "o", "u", "t", " ", "y", "o", "u", ":", "*", "*">>>>
              \o [k \in 1..Min(3, Len(facts)) |-> <<"-", " ">> \o facts[k].fact]
         ELSE <<>>)
  \o (IF is_monday(d)
         THEN << <<>>, <<"*", "*", "P", "a", "t", "t", "e", "r", "n", " ", "n", "o", "t", "e", ":", "*", "*", " ", "I", "t", "'", "s", " ", "M", "o", "n", "d", "a", "y", ".", " ", "I", "'", "v", "e", " ", "a", "d", "d", "e", "d", " ", "a", "n", " ", "e", "x", "t", "r", "a", "-", "s", "m", "a", "l", "l", " ", "q", "u", "i", "c", "k", " ", "w", "i", "n", " ", "t", "o", " ", "h", "e", "l", "p", " ", "y", "o", "u", " ", "g", "e", "t", " ", "s", "t", "a", "r", "t", "e", "d", ".">>>>
         ELSE <<>>)
  \o (IF is_late_start(clock)
         THEN << <<>>, <<"*", "*", "P", "a", "t", "t", "e", "r", "n", " ", "n", "o", "t", "e", ":", "*", "*", " ", "I", "t", "'", "s", " ">> \o ClockText(clock)
                       \o <<" ", "-", " ", "l", "a", "t", "e", "r", " ", "t", "h", "a", "n", " ", "u", "s", "u", "a", "l", ".", " ", "N", "o", " ", "j", "u", "d", "g", "m", "e", "n", "t", "!", " ", "L", "e", "t", "'", "s", " ", "s", "t", "a", "r", "t", " ", "s", "m", "a", "l", "l", ".">>>>
         ELSE <<>>)

\* the tool create_daily_note from the await of get_db on: the vault after
\* its call of vault.create_daily_note
ToolCreate(v, d, goals, facts, clock) ==
  LET Created(yesterday_tasks, context) ==
        create_daily_note(v, d, ToolFocus(yesterday_tasks, goals), ToolQuickWin(d, clock),
                          ToolTasks(yesterday_tasks, goals),
                          IF context = <<>> THEN NoText ELSE context, clock)
      From(yesterday_tasks) ==
        Created(yesterday_tasks, ToolContext(v, d, yesterday_tasks, goals, facts, clock))
  IN From(YesterdayTasks(v, d))


\* a note as its owner wrote it: a Tasks section for the titles of the table
\* and a Notes section
WrittenBody ==
  << <<"#", "#", " ", "T", "a", "s", "k", "s">>, <<"-", " ", "[", "x", "]", " ", "t", "1">>, <<"-", " ", "[", " ", "]", " ", "t", "2", " ", "#", "u", "r", "g", "e", "n", "t">>, <<>>, <<"#", "#", " ", "N", "o", "t", "e", "s">>, <<"o", "l", "d">> >>

\* what the tool create_daily_note reads besides the vault: the rows of the
\* goals and of the user_facts table and datetime.now(), in the morning with
\* both tables empty, and after 10 with a row in each
ToolInputs ==
  { [goals |-> <<>>, facts |-> <<>>, clock |-> [hour |-> 9, minute |-> 5]],
    [goals |-> <<[goal |-> <<"s", "h", "i", "p">>, timeframe |-> <<"w", "e", "e", "k">>]>>,
     facts |-> <<[fact |-> <<"l", "i", "k", "e", "s", " ", "t", "e", "a">>, category |-> <<"h", "a", "b", "i", "t">>]>>,
     clock |-> [hour |-> 14, minute |-> 30]] }

\* rows for start_my_day: one that a selection takes, with notes and an
\* estimate, and one that is completed
CreateKinds ==
  { Kind("high", NotesQuickWin, 10, 1, "active", NULL),
    Kind("medium", NotesDeadline, NullInt, 0, "completed", ScheduledEarlier) }

NoCall == [op |-> "none", date |-> NoArgs.target_date, outcome |-> "none"]

\* a table, and for each date a note or none, no call made yet
InitCreate ==
  /\ \E n \in 0..MaxBacklog :
       \E ks \in [1..n -> CreateKinds] :
         todos = [i \in 1..n |-> MakeRow(i, ks[i])]
  /\ \E present \in SUBSET TargetDates :
       vault = [p \in {get_daily_note_path(d) : d \in present} |->
                  [metadata |-> NoteMetadata(CHOOSE d \in present : get_daily_note_path(d) = p),
                   content |-> WrittenBody]]
  /\ pc = "idle"
  /\ args = NoArgs
  /\ result = NoCall
  /\ first = NoResult
  /\ before = todos
  /\ vbefore = vault

\* ObsidianVault.create_daily_note(date), as add_task_to_daily_note and the
\* tool reach it
VaultCreateDailyNote ==
  /\ \E d \in TargetDates, in \in ToolInputs :
       /\ vault' = create_daily_note(vault, d, NoText, NoText, NoText, NoText, in.clock)
       /\ result' = [op |-> "vault.create_daily_note", date |-> d,
                     outcome |-> IF daily_note_exists(vault, d) THEN "exists" ELSE "created"]
  /\ vbefore' = vault
  /\ UNCHANGED <<todos, pc, args, first, before>>

\* the tool create_daily_note(date_str) up to its first await: the test of
\* daily_notes.py:181
CreateToolCheck ==
  /\ pc = "idle"
  /\ \E d \in TargetDates :
       IF daily_note_exists(vault, d)
          THEN /\ result' = [op |-> "create_daily_note", date |-> d, outcome |-> "exists"]
               /\ UNCHANGED <<pc, args>>
          ELSE /\ result' = [op |-> "create_daily_note", date |-> d, outcome |-> "awaiting"]
               /\ pc' = "creating"
               /\ args' = [target_date |-> d, max_tasks |-> 0]
  /\ vbefore' = vault
  /\ UNCHANGED <<todos, vault, first, before>>

\* the rest of the tool, run when the event loop resumes it
CreateToolWrite ==
  /\ pc = "creating"
  /\ \E in \in ToolInputs :
       vault' = ToolCreate(vault, args.target_date, in.goals, in.facts, in.clock)
  /\ result' = [op |-> "create_daily_note", date |-> args.target_date, outcome |-> "returned"]
  /\ pc' = "idle"
  /\ args' = NoArgs
  /\ vbefore' = vault
  /\ UNCHANGED <<todos, first, before>>

\* start_my_day(date_str): yesterday's note reconciled, the selection made
\* and stamped, the note of the day written if there is none; the test and
\* the write have no await between them
StartMyDay ==
  /\ \E d \in TargetDates, o \in FetchOrders(todos) :
     \E synced \in {IF daily_note_exists(vault, DayBefore(d))
                       THEN _sync_completed_tasks(vault, DayBefore(d), todos, o, SyncNow).todos
                       ELSE todos} :
     \E selected \in {select_tasks_for_today(synced, d, DefaultMaxTasks)} :
     \E note_existed \in {daily_note_exists(vault, d)} :
          /\ todos' = StampScheduled(synced, IdsOf(SelectedTasks(selected)), d)
          /\ vault' = IF ~note_existed THEN _create_daily_note_with_tasks(vault, d, selected)
                      ELSE vault
          /\ result' = [op |-> "start_my_day", date |-> d,
                        outcome |-> IF note_existed THEN "exists" ELSE "created"]
  /\ before' = todos
  /\ vbefore' = vault
  /\ UNCHANGED <<pc, args, first>>

NextCreate == VaultCreateDailyNote \/ CreateToolCheck \/ CreateToolWrite \/ StartMyDay

SpecCreate == InitCreate /\ [][NextCreate]_vars

----------------------------------------------------------------------------
(* obsidian.py: reading, rewriting and adding one section of a note. *)

\* read_section(date, section_name), None if there is no note
read_section(v, d, section_name) ==
  IF ~daily_note_exists(v, d) THEN NoText
  ELSE _extract_section(Load(v[get_daily_note_path(d)]).content, section_name)

\* lines[i].strip().startswith("## ")
EndsSection(line) == Len(strip(line)) >= 3 /\ SubSeq(strip(line), 1, 3) = <<"#", "#", " ">>

\* the index the inner loop of write_to_section stops at, begun at i
RECURSIVE SectionEnd(_, _)
SectionEnd(lines, i) ==
  IF i <= Len(lines) /\ ~EndsSection(lines[i]) THEN SectionEnd(lines, i + 1) ELSE i

\* what write_to_section puts after the heading of a target section
NewSectionLines(existing_content, content, append) ==
  IF append
     THEN existing_content
          \o (IF existing_content # <<>> /\ ~IsBlank(existing_content[Len(existing_content)])
                 THEN << <<>> >> ELSE <<>>)
          \o content
     ELSE content

\* new_lines of write_to_section from line i on
RECURSIVE RewriteFrom(_, _, _, _, _)
RewriteFrom(lines, i, section_name, content, append) ==
  IF i > Len(lines) THEN <<>>
  ELSE IF HeadingMatches(lines[i], section_name)
     THEN <<lines[i]>>
          \o NewSectionLines(SubSeq(lines, i + 1, SectionEnd(lines, i + 1) - 1), content, append)
          \o RewriteFrom(lines, SectionEnd(lines, i + 1), section_name, content, append)
  ELSE <<lines[i]>> \o RewriteFrom(lines, i + 1, section_name, content, append)

\* section_found of write_to_section
SectionFound(lines, section_name) ==
  \E i \in 1..Len(lines) : HeadingMatches(lines[i], section_name)

\* the file write_to_section writes to the temporary path
RewrittenFile(file, section_name, content, append) ==
  Dump([metadata |-> Load(file).metadata,
        content |-> RewriteFrom(Load(file).content, 1, section_name, content, append)])

\* write_to_section, were it to write also when it finds no such section
write_to_section_always(v, d, section_name, content, append) ==
  IF ~daily_note_exists(v, d) THEN [ok |-> FALSE, vault |-> v]
  ELSE [ok |-> TRUE,
        vault |-> WithFile(v, get_daily_note_path(d),
                           RewrittenFile(v[get_daily_note_path(d)], section_name, content, append))]

\* write_to_section(date, section_name, content, append): what it returns and
\* the vault after it, the temporary file written and renamed
write_to_section(v, d, section_name, content, append) ==
  IF ~daily_note_exists(v, d) THEN [ok |-> FALSE, vault |-> v]
  ELSE IF ~SectionFound(Load(v[get_daily_note_path(d)]).content, section_name)
     THEN [ok |-> FALSE, vault |-> v]
  ELSE [ok |-> TRUE,
        vault |-> WithFile(v, get_daily_note_path(d),
                           RewrittenFile(v[get_daily_note_path(d)], section_name, content, append))]

\* the heading add_section builds
NewHeading(section_name, emoji) ==
  IF emoji # <<>> THEN <<"#", "#", " ">> \o emoji \o <<" ">> \o section_name
  ELSE <<"#", "#", " ">> \o section_name

\* the file add_section writes to the temporary path
ExtendedFile(file, section_name, content, emoji) ==
  Dump([metadata |-> Load(file).metadata,
        content |-> LET old == Load(file).content
                    IN old \o << <<>>, NewHeading(section_name, emoji) >> \o content])

\* add_section, were it to put the new section first
add_section_first(v, d, section_name, content, emoji) ==
  IF ~daily_note_exists(v, d) THEN [ok |-> FALSE, vault |-> v]
  ELSE [ok |-> TRUE,
        vault |-> WithFile(v, get_daily_note_path(d),
                    Dump([metadata |-> Load(v[get_daily_note_path(d)]).metadata,
                          content |-> <<NewHeading(section_name, emoji)>> \o content
                                      \o Load(v[get_daily_note_path(d)]).content]))]

\* add_section(date, section_name, content, emoji)
add_section(v, d, section_name, content, emoji) ==
  IF ~daily_note_exists(v, d) THEN [ok |-> FALSE, vault |-> v]
  ELSE [ok |-> TRUE,
        vault |-> WithFile(v, get_daily_note_path(d),
                           ExtendedFile(v[get_daily_note_path(d)], section_name, content, emoji))]


\* the most blocks of lines a note is put together from
MaxBlocks == 3

\* blocks of lines of a note: a Notes section with no, one and two blank
\* lines after its text, one with a styled heading of the same name, a
\* section whose text holds an indented heading, an empty section, plain text
NoteBlocks ==
  { << <<"#", "#", " ", "N", "o", "t", "e", "s">>, <<"o", "l", "d">> >>,
    << <<"#", "#", " ", "N", "o", "t", "e", "s">>, <<>>, <<"o", "l", "d">>, <<>> >>,
    << <<"#", "#", " ", "N", "o", "t", "e", "s">>, <<"o", "l", "d">>, <<>>, <<>> >>,
    << <<"#", "#", " ", "U+1F4DD", " ", "n", "o", "t", "e", "s", " ">>, <<"k", "e", "p", "t">> >>,
    << <<"#", "#", " ", "L", "o", "g">>, <<"e", "n", "t", "r", "y">>, <<" ", " ", "#", "#", " ", "S", "u", "b">>, <<"m", "o", "r", "e">> >>,
    << <<"#", "#", " ", "N", "o", "t", "e", "s">> >>,
    << <<"i", "n", "t", "r", "o">> >> }

\* the date whose note the vault may hold
NoteDate == [year |-> 2025, month |-> 11, day |-> 7]

SectionNames == { <<"N", "o", "t", "e", "s">>, <<"L", "o", "g">>, <<"P", "l", "a", "n", "s">> }
SectionContents == { << <<"n", "e", "w">> >>, << <<"n", "e", "w">>, <<"m", "o", "r", "e">> >> }
SectionEmojis == { <<>>, <<"U+1F4DD">> }

NoWrite ==
  [op |-> "none", ok |-> FALSE, date |-> NoteDate, section_name |-> <<>>,
   content |-> EmptyText, append |-> FALSE, emoji |-> <<>>]

\* a vault with the note of NoteDate put together from blocks, or with no
\* note; no call made yet
InitSection ==
  /\ \E m \in 0..MaxBlocks :
       \E blocks \in [1..m -> NoteBlocks] :
         vault = IF m = 0 THEN NoFiles
                 ELSE (get_daily_note_path(NoteDate) :>
                         [metadata |-> NoteMetadata(NoteDate), content |-> JoinParts(blocks)])
  /\ todos = <<>>
  /\ pc = "idle"
  /\ args = NoArgs
  /\ result = NoWrite
  /\ first = NoResult
  /\ before = todos
  /\ vbefore = vault

\* the tool write_daily_note_section(section, content, date_str, append)
WriteDailyNoteSection ==
  /\ pc = "idle"
  /\ \E d \in TargetDates, section \in SectionNames, content \in SectionContents,
        append \in BOOLEAN :
       LET r == write_to_section(vault, d, section, content, append)
       IN /\ vault' = r.vault
          /\ result' = [op |-> "write_to_section", ok |-> r.ok, date |-> d,
                        section_name |-> section, content |-> content,
                        append |-> append, emoji |-> <<>>]
  /\ pc' = "written"
  /\ vbefore' = vault
  /\ UNCHANGED <<todos, args, first, before>>

\* the tool add_daily_note_section(section_name, content, date_str, emoji)
AddDailyNoteSection ==
  /\ pc = "idle"
  /\ \E d \in TargetDates, section_name \in SectionNames, content \in SectionContents,
        emoji \in SectionEmojis :
       LET r == add_section(vault, d, section_name, content, emoji)
       IN /\ vault' = r.vault
          /\ result' = [op |-> "add_section", ok |-> r.ok, date |-> d,
                        section_name |-> section_name, content |-> content,
                        append |-> FALSE, emoji |-> emoji]
  /\ pc' = "written"
  /\ vbefore' = vault
  /\ UNCHANGED <<todos, args, first, before>>

NextSection == WriteDailyNoteSection \/ AddDailyNoteSection

SpecSection == InitSection /\ [][NextSection]_vars

\* the lines of a text that open a heading, in their order
HeadingLines(content) ==
  LET S == {i \in 1..Len(content) : OpensHeading(content[i])}
  IN [k \in 1..Cardinality(S) |-> CHOOSE i \in S : Cardinality({j \in S : j < i}) = k - 1]

\* the sections of a text as a reader finds them: each heading with the
\* trimmed text up to the next heading
SectionsOf(content) ==
  LET hs == HeadingLines(content)
  IN [k \in 1..Len(hs) |->
        [heading |-> content[hs[k]],
         body |-> StripText(SubSeq(content, hs[k] + 1,
                                   (IF k < Len(hs) THEN hs[k + 1] ELSE Len(content) + 1) - 1))]]

\* the trimmed text before the first heading
Preamble(content) ==
  LET hs == HeadingLines(content)
  IN StripText(SubSeq(content, 1, (IF hs = <<>> THEN Len(content) + 1 ELSE hs[1]) - 1))

\* the text of the note of the last call's date, before and after the call
OldContent == Load(vbefore[get_daily_note_path(result.date)]).content
NewContent == Load(vault[get_daily_note_path(result.date)]).content

\* the place among the sections of the one read_section returns
TargetSection(content, section_name) ==
  LET hs == HeadingLines(content)
  IN Least({k \in 1..Len(hs) :
              hs[k] < Len(content) /\ HeadingMatches(content[hs[k]], section_name)})

\* C17: a successful write_to_section changes only the body of the one
\* section that read_section returns for the name: the metadata, the text
\* before the first heading, the headings in their order and the body of
\* every other section are as before, also of a later section of the same name.
C17_OnlyTheReadSectionChanges ==
  (/\ result.op = "write_to_section"
   /\ result.ok
   /\ read_section(vbefore, result.date, result.section_name) # NoText)
    => /\ vault[get_daily_note_path(result.date)].metadata
            = vbefore[get_daily_note_path(result.date)].metadata
       /\ Preamble(NewContent) = Preamble(OldContent)
       /\ Len(SectionsOf(NewContent)) = Len(SectionsOf(OldContent))
       /\ \A k \in 1..Len(SectionsOf(OldContent)) :
            /\ SectionsOf(NewContent)[k].heading = SectionsOf(OldContent)[k].heading
            /\ k # TargetSection(OldContent, result.section_name)
                 => SectionsOf(NewContent)[k].body = SectionsOf(OldContent)[k].body

\* the note has no heading of the name
NoSuchSection(v, d, section_name) ==
  \A i \in 1..Len(Load(v[get_daily_note_path(d)]).content) :
     ~HeadingMatches(Load(v[get_daily_note_path(d)]).content[i], section_name)

\* C18: write_to_section, appending or replacing, returns False when the note
\* does not exist or has no section of the name, and then leaves the vault as
\* it was: the note unchanged, no section made, no temporary file.
C18_NoSectionNoWrite ==
  (/\ result.op = "write_to_section"
   /\ \/ ~daily_note_exists(vbefore, result.date)
      \/ NoSuchSection(vbefore, result.date, result.section_name))
    => /\ ~result.ok
       /\ vault = vbefore

\* an append to a section that a note with other sections does not have
C18_Witness ==
  /\ result.op = "write_to_section"
  /\ result.append
  /\ daily_note_exists(vbefore, result.date)
  /\ NoSuchSection(vbefore, result.date, result.section_name)
  /\ Len(SectionsOf(OldContent)) >= 2
  /\ ~result.ok

\* C19: after a successful write_to_section the trimmed body of the section
\* is, appending to a body E that is not empty, E, one blank line and the
\* content, however many blank lines follow E in the file; appending to an
\* empty body, the content; replacing, the content.
C19_OneBlankLineThenContent ==
  (result.op = "write_to_section" /\ result.ok)
    => LET E == read_section(vbefore, result.date, result.section_name)
       IN read_section(vault, result.date, result.section_name)
            = IF result.append /\ E # NoText /\ E # EmptyText
                 THEN StripText(E \o << <<>> >> \o result.content)
                 ELSE StripText(result.content)

\* C20: add_section returns False and makes no file when the date has no
\* note; when it has one, the new heading and body come after all that the
\* note held, whose sections keep their order and their bodies.
C20_AddSectionAtEnd ==
  result.op = "add_section"
    => IF ~daily_note_exists(vbefore, result.date)
          THEN ~result.ok /\ vault = vbefore
          ELSE /\ result.ok
               /\ DOMAIN vault = DOMAIN vbefore
               /\ vault[get_daily_note_path(result.date)].metadata
                    = vbefore[get_daily_note_path(result.date)].metadata
               /\ Preamble(NewContent) = Preamble(OldContent)
               /\ Len(SectionsOf(NewContent)) = Len(SectionsOf(OldContent)) + 1
               /\ \A k \in 1..Len(SectionsOf(OldContent)) :
                    SectionsOf(NewContent)[k] = SectionsOf(OldContent)[k]
               /\ SectionsOf(NewContent)[Len(SectionsOf(NewContent))]
                    = [heading |-> NewHeading(result.section_name, result.emoji),
                       body |-> StripText(result.content)]

\* a section added to a note of two sections or more, under a name it has
C20_Witness ==
  /\ result.op = "add_section"
  /\ result.ok
  /\ Len(SectionsOf(OldContent)) >= 2
  /\ ~NoSuchSection(vbefore, result.date, result.section_name)
  /\ Len(SectionsOf(NewContent)) = Len(SectionsOf(OldContent)) + 1


----------------------------------------------------------------------------
(* obsidian.py: update_task_status, add_task_to_daily_note and             *)
(* add_accomplishment, which no tool calls.                                *)

\* pattern in text, one line of it holding the whole pattern
InText(pattern, text) == \E i \in 1..Len(text) : Contains(text[i], pattern)

\* re.match(rf"^(- \[{old}\] )({re.escape(task_text)}.*)$", line)
IsTaskLineOf(line, old, task_text) ==
  /\ Len(line) >= 6 + Len(task_text)
  /\ SubSeq(line, 1, 6) = <<"-", " ", "[">> \o <<old>> \o <<"]", " ">>
  /\ SubSeq(line, 7, 6 + Len(task_text)) = task_text

\* the lines update_task_status finds the task in
TaskLinesOf(lines, task_text, completed) ==
  {i \in 1..Len(lines) : IsTaskLineOf(lines[i], IF completed THEN " " ELSE "x", task_text)}

\* the file update_task_status writes: the first such line with its box changed
StatusUpdatedFile(file, task_text, completed) ==
  LET lines == Load(file).content
      at == Least(TaskLinesOf(lines, task_text, completed))
  IN Dump([metadata |-> Load(file).metadata,
           content |-> [i \in 1..Len(lines) |->
                          IF i = at
                             THEN <<"-", " ", "[">> \o <<IF completed THEN "x" ELSE " ">> \o <<"]", " ">>
                                  \o SubSeq(lines[i], 7, Len(lines[i]))
                             ELSE lines[i]]])

StyledTasksHeading == <<"#", "#", " ", "U+00E2", "U+0153", "U+2026", " ", "T", "a", "s", "k", "s">>
PlainTasksHeading == <<"#", "#", " ", "T", "a", "s", "k", "s">>
StyledAccomplishmentsHeading == <<"#", "#", " ", "U+00F0", "U+0178", "U+2019", "U+00AA", " ", "A", "c", "c", "o", "m", "p", "l", "i", "s", "h", "m", "e", "n", "t", "s">>
PlainAccomplishmentsHeading == <<"#", "#", " ", "A", "c", "c", "o", "m", "p", "l", "i", "s", "h", "m", "e", "n", "t", "s">>

\* the text add_task_to_daily_note splits into lines: a Tasks heading is
\* added to a text that holds neither spelling of it
WithTasksHeading(content) ==
  IF InText(StyledTasksHeading, content) \/ InText(PlainTasksHeading, content) THEN content
  ELSE content \o << <<>>, PlainTasksHeading, <<>> >>

\* f"- [ ] {task_text}{priority_tag}"
NewTaskLine(task_text, priority) ==
  <<"-", " ", "[", " ", "]", " ">> \o task_text
  \o (IF priority = "high" THEN <<" ", "#", "h", "i", "g", "h", "-", "p", "r", "i", "o", "r", "i", "t", "y">>
      ELSE IF priority = "low" THEN <<" ", "#", "l", "o", "w", "-", "p", "r", "i", "o", "r", "i", "t", "y">> ELSE <<>>)

\* where the while loop of add_task_to_daily_note leaves insert_index, begun at i
RECURSIVE SkipHighPriority(_, _, _)
SkipHighPriority(lines, i, priority) ==
  IF /\ i <= Len(lines)
     /\ Len(strip(lines[i])) >= 5
     /\ SubSeq(strip(lines[i]), 1, 5) = <<"-", " ", "[", " ", "]">>
     /\ ~(~Contains(lines[i], <<"#", "h", "i", "g", "h", "-", "p", "r", "i", "o", "r", "i", "t", "y">>) \/ priority = "low")
     THEN SkipHighPriority(lines, i + 1, priority)
     ELSE i

\* the lines that are one of the two Tasks headings when stripped
TasksHeadingLines(lines) ==
  {i \in 1..Len(lines) : strip(lines[i]) \in {StyledTasksHeading, PlainTasksHeading}}

\* new_lines of add_task_to_daily_note: the lines the while loop passes are
\* appended by it and again by the for loop
TaskInsertedLines(lines, task_text, priority) ==
  LET h == Least(TasksHeadingLines(lines))
      stop == IF priority # "high" THEN SkipHighPriority(lines, h + 1, priority) ELSE h + 1
  IN SubSeq(lines, 1, h) \o SubSeq(lines, h + 1, stop - 1)
     \o <<NewTaskLine(task_text, priority)>> \o SubSeq(lines, h + 1, Len(lines))

\* the lines that are one of the two Accomplishments headings when stripped
AccomplishmentsHeadingLines(lines) ==
  {i \in 1..Len(lines) :
     strip(lines[i]) \in {StyledAccomplishmentsHeading, PlainAccomplishmentsHeading}}

\* new_lines of add_accomplishment
AccomplishmentInsertedLines(lines, accomplishment, clock) ==
  LET h == Least(AccomplishmentsHeadingLines(lines))
  IN SubSeq(lines, 1, h)
     \o <<<<"-", " ">> \o accomplishment \o <<" ", "(">> \o ClockText(clock) \o <<")">>>>
     \o SubSeq(lines, h + 1, Len(lines))

\* what a vault operation is about to do: nothing, or write file to path by
\* way of the temporary file
NoWriting == [write |-> FALSE, ok |-> FALSE]
Writing(path, file) == [write |-> TRUE, ok |-> TRUE, path |-> path, file |-> file]

\* update_task_status(date, task_text, completed) up to its write
update_task_status(v, d, task_text, completed) ==
  IF ~daily_note_exists(v, d) THEN NoWriting
  ELSE IF TaskLinesOf(Load(v[get_daily_note_path(d)]).content, task_text, completed) = {}
     THEN NoWriting
  ELSE Writing(get_daily_note_path(d),
               StatusUpdatedFile(v[get_daily_note_path(d)], task_text, completed))

\* add_task_to_daily_note(date, task_text, priority) up to its write
add_task_to_daily_note(v, d, task_text, priority, clock) ==
  IF ~daily_note_exists(v, d)
     THEN Writing(get_daily_note_path(d),
                  create_daily_note(v, d, NoText, NoText, <<task_text>>, NoText, clock)[get_daily_note_path(d)])
  ELSE LET post == Load(v[get_daily_note_path(d)])
           lines == WithTasksHeading(post.content)
       IN IF TasksHeadingLines(lines) = {} THEN NoWriting
          ELSE Writing(get_daily_note_path(d),
                       Dump([metadata |-> post.metadata,
                             content |-> TaskInsertedLines(lines, task_text, priority)]))

\* add_accomplishment(date, accomplishment) up to its write
add_accomplishment(v, d, accomplishment, clock) ==
  IF ~daily_note_exists(v, d) THEN NoWriting
  ELSE LET post == Load(v[get_daily_note_path(d)])
       IN IF ~(InText(StyledAccomplishmentsHeading, post.content)
               \/ InText(PlainAccomplishmentsHeading, post.content)) THEN NoWriting
          ELSE IF AccomplishmentsHeadingLines(post.content) = {} THEN NoWriting
          ELSE Writing(get_daily_note_path(d),
                       Dump([metadata |-> post.metadata,
                             content |-> AccomplishmentInsertedLines(post.content, accomplishment, clock)]))


----------------------------------------------------------------------------
(* Writing a note file, step by step: the file is opened for writing, which *)
(* makes it or empties it, then written, then, if it is the temporary file, *)
(* renamed onto the note; the operation may fail between any two steps.     *)

\* the file open(path, "w") leaves before anything is written
EmptyFile == [metadata |-> <<>>, content |-> EmptyText]

NoWritingArgs == [op |-> "none", path |-> <<>>, target |-> <<>>, file |-> EmptyFile]

\* the notes a vault may hold for NoteDate: the owner's, and the one
\* ObsidianVault.create_daily_note makes
AtomicFiles ==
  { [metadata |-> NoteMetadata(NoteDate), content |-> WrittenBody],
    Dump([metadata |-> CreatedMetadata(NoteDate),
          content |-> CreatedBody(NoteDate, NoText, NoText, <<<<"t", "1">>>>, NoText,
                                  [hour |-> 9, minute |-> 5])]) }

InitAtomic ==
  /\ \E n \in 0..MaxBacklog :
       \E ks \in [1..n -> CreateKinds] :
         todos = [i \in 1..n |-> MakeRow(i, ks[i])]
  /\ \/ vault = NoFiles
     \/ \E file \in AtomicFiles : vault = (get_daily_note_path(NoteDate) :> file)
  /\ pc = "idle"
  /\ args = NoWritingArgs
  /\ result = [op |-> "none", ok |-> FALSE]
  /\ first = NoResult
  /\ before = todos
  /\ vbefore = vault

\* an operation of the vault goes on to write plan.file by way of the
\* temporary file, or returns without writing
BeginWriting(op, plan) ==
  /\ pc = "idle"
  /\ IF plan.write
        THEN /\ pc' = "opening"
             /\ args' = [op |-> op, path |-> plan.path, target |-> TempPath(plan.path),
                         file |-> plan.file]
        ELSE /\ pc' = "done"
             /\ args' = NoWritingArgs
  /\ result' = [op |-> op, ok |-> plan.ok]
  /\ vbefore' = vault
  /\ UNCHANGED <<vault, first>>

\* ObsidianVault.create_daily_note(date) up to its write
BeginCreateDailyNote ==
  /\ \E d \in TargetDates :
       BeginWriting("create_daily_note",
         IF daily_note_exists(vault, d) THEN [NoWriting EXCEPT !.ok = TRUE]
         ELSE Writing(get_daily_note_path(d),
                      create_daily_note(vault, d, NoText, NoText, NoText, NoText,
                                        [hour |-> 9, minute |-> 5])[get_daily_note_path(d)]))
  /\ UNCHANGED <<todos, before>>

\* write_to_section(date, section_name, content, append) up to its write
BeginWriteToSection ==
  /\ \E d \in TargetDates, append \in BOOLEAN :
       LET r == write_to_section(vault, d, <<"N", "o", "t", "e", "s">>, <<<<"n", "e", "w">>>>, append)
       IN BeginWriting(IF append THEN "write_to_section append" ELSE "write_to_section replace",
            IF r.ok THEN Writing(get_daily_note_path(d), r.vault[get_daily_note_path(d)])
            ELSE NoWriting)
  /\ UNCHANGED <<todos, before>>

\* add_section(date, section_name, content, emoji) up to its write
BeginAddSection ==
  /\ \E d \in TargetDates :
       LET r == add_section(vault, d, <<"P", "l", "a", "n", "s">>, <<<<"n", "e", "w">>>>, <<>>)
       IN BeginWriting("add_section",
            IF r.ok THEN Writing(get_daily_note_path(d), r.vault[get_daily_note_path(d)])
            ELSE NoWriting)
  /\ UNCHANGED <<todos, before>>

\* update_task_status(date, task_text, completed) up to its write
BeginUpdateTaskStatus ==
  /\ \E d \in TargetDates, task_text \in {<<"t", "1">>, <<"t", "2">>}, completed \in BOOLEAN :
       BeginWriting("update_task_status", update_task_status(vault, d, task_text, completed))
  /\ UNCHANGED <<todos, before>>

\* add_task_to_daily_note(date, task_text, priority) up to its write
BeginAddTask ==
  /\ \E d \in TargetDates, priority \in {"high", "medium", "low"} :
       BeginWriting("add_task_to_daily_note",
         add_task_to_daily_note(vault, d, <<"t", "3">>, priority, [hour |-> 9, minute |-> 5]))
  /\ UNCHANGED <<todos, before>>

\* add_accomplishment(date, accomplishment) up to its write
BeginAddAccomplishment ==
  /\ \E d \in TargetDates :
       BeginWriting("add_accomplishment",
         add_accomplishment(vault, d, <<"s", "h", "i", "p", "p", "e", "d">>, [hour |-> 14, minute |-> 30]))
  /\ UNCHANGED <<todos, before>>

\* start_my_day(date_str) up to the write of _create_daily_note_with_tasks,
\* which opens the note itself: yesterday's note is reconciled and the
\* selection stamped before
BeginStartMyDay ==
  /\ pc = "idle"
  /\ \E d \in TargetDates, o \in FetchOrders(todos) :
       LET synced == IF daily_note_exists(vault, DayBefore(d))
                        THEN _sync_completed_tasks(vault, DayBefore(d), todos, o, SyncNow).todos
                        ELSE todos
           selected == select_tasks_for_today(synced, d, DefaultMaxTasks)
       IN /\ todos' = StampScheduled(synced, IdsOf(SelectedTasks(selected)), d)
          /\ IF daily_note_exists(vault, d)
                THEN /\ pc' = "done"
                     /\ args' = NoWritingArgs
                ELSE /\ pc' = "opening"
                     /\ args' = [op |-> "start_my_day", path |-> get_daily_note_path(d),
                                 target |-> get_daily_note_path(d),
                                 file |-> _create_daily_note_with_tasks(vault, d, selected)[get_daily_note_path(d)]]
  /\ result' = [op |-> "start_my_day", ok |-> TRUE]
  /\ before' = todos
  /\ vbefore' = vault
  /\ UNCHANGED <<vault, first>>

\* open(target, "w")
OpenFile ==
  /\ pc = "opening"
  /\ vault' = WithFile(vault, args.target, EmptyFile)
  /\ pc' = "writing"
  /\ UNCHANGED <<todos, args, result, first, before, vbefore>>

\* f.write(frontmatter.dumps(post)) and the close of the file
WriteFile ==
  /\ pc = "writing"
  /\ vault' = WithFile(vault, args.target, args.file)
  /\ pc' = IF args.target = args.path THEN "done" ELSE "renaming"
  /\ UNCHANGED <<todos, args, result, first, before, vbefore>>

\* temp_path.rename(note_path)
RenameFile ==
  /\ pc = "renaming"
  /\ vault' = WithFile(WithoutFile(vault, args.target), args.path, vault[args.target])
  /\ pc' = "done"
  /\ UNCHANGED <<todos, args, result, first, before, vbefore>>

\* the operation fails where it is: an exception, or the process ends
FailWriting ==
  /\ pc \in {"opening", "writing", "renaming"}
  /\ pc' = "failed"
  /\ UNCHANGED <<todos, vault, args, result, first, before, vbefore>>

NextAtomic ==
  \/ BeginCreateDailyNote \/ BeginWriteToSection \/ BeginAddSection
  \/ BeginUpdateTaskStatus \/ BeginAddTask \/ BeginAddAccomplishment
  \/ BeginStartMyDay
  \/ OpenFile \/ WriteFile \/ RenameFile \/ FailWriting

SpecAtomic == InitAtomic /\ [][NextAtomic]_vars

\* C16: every operation that creates or changes a note writes a temporary
\* file next to it and renames it onto the note, so that when the operation
\* fails before the rename, the path of the note holds all it held before
\* the operation, or no file if the note did not exist.
C16_FailureLeavesTheNote ==
  /\ pc \in {"opening", "writing", "renaming"} => args.target = TempPath(args.path)
  /\ pc = "failed" =>
       IF args.path \in DOMAIN vbefore
          THEN args.path \in DOMAIN vault /\ vault[args.path] = vbefore[args.path]
          ELSE args.path \notin DOMAIN vault

----------------------------------------------------------------------------
(* obsidian.py: read_full_note and its map of sections; the tools          *)
(* read_daily_note_full and read_daily_note_section.                       *)

\* re.match(r"^##\s+(?:[\U0001F300-\U0001F9FF]\s+)?(.+)$", line) finds a match
IsHeading(line) ==
  /\ Len(line) >= 4
  /\ line[1] = "#"
  /\ line[2] = "#"
  /\ IsSpace(line[3])

\* the first place from p on that holds no whitespace, Len(line) + 1 if none
SkipBlank(line, p) ==
  LET S == {k \in p..Len(line) : ~IsSpace(line[k])}
  IN IF S = {} THEN Len(line) + 1 ELSE Least(S)

\* heading_match.group(1).strip(): \s+ takes all the whitespace after ##, a
\* pictograph with whitespace and a character after it is left out, and (.+)
\* is the rest of the line
HeadingName(line) ==
  LET p == SkipBlank(line, 3)
  IN IF p > Len(line) THEN <<>>
     ELSE IF line[p] \in PictographChars /\ p + 2 <= Len(line) /\ IsSpace(line[p + 1])
        THEN strip(SubSeq(line, SkipBlank(line, p + 1), Len(line)))
     ELSE strip(SubSeq(line, p, Len(line)))

\* the lines a section is saved with: those after its heading h up to the
\* next heading, joined and stripped
SavedContent(content, h) ==
  LET later == {e \in (h + 1)..Len(content) : IsHeading(content[e])}
      e == IF later = {} THEN Len(content) + 1 ELSE Least(later)
  IN StripText(SubSeq(content, h + 1, e - 1))

\* what sections[name] is in the end: every heading of a name that is not
\* empty saves under it, a later save replacing an earlier one
LastSaved(content, name) ==
  SavedContent(content, Greatest({h \in 1..Len(content) :
                                    IsHeading(content[h]) /\ HeadingName(content[h]) = name}))

\* _parse_all_sections(content): the dict of the sections by name
_parse_all_sections(content) ==
  LET names == {HeadingName(content[h]) : h \in {i \in 1..Len(content) : IsHeading(content[i])}}
                 \ {<<>>}
  IN [name \in names |-> LastSaved(content, name)]

\* read_full_note(date): found is False for the None of a missing note
read_full_note(v, d) ==
  IF ~daily_note_exists(v, d)
     THEN [found |-> FALSE, metadata |-> <<>>, full_content |-> EmptyText, sections |-> <<>>]
     ELSE LET post == Load(v[get_daily_note_path(d)])
          IN [found |-> TRUE, metadata |-> post.metadata, full_content |-> post.content,
              sections |-> _parse_all_sections(post.content)]

\* the tool read_daily_note_full(date_str)
ReadDailyNoteFull ==
  /\ pc = "idle"
  /\ \E d \in TargetDates :
       result' = [op |-> "read_full_note", date |-> d, section_name |-> <<>>,
                  note |-> read_full_note(vault, d), text |-> NoText]
  /\ pc' = "read"
  /\ UNCHANGED <<todos, vault, args, first, before, vbefore>>

\* the tool read_daily_note_section(date_str, section)
ReadDailyNoteSection ==
  /\ pc = "idle"
  /\ \E d \in TargetDates, section \in SectionNames :
       result' = [op |-> "read_section", date |-> d, section_name |-> section,
                  note |-> read_full_note(vault, d),
                  text |-> read_section(vault, d, section)]
  /\ pc' = "read"
  /\ UNCHANGED <<todos, vault, args, first, before, vbefore>>

NextRead == ReadDailyNoteFull \/ ReadDailyNoteSection

SpecRead == InitSection /\ [][NextRead]_vars

\* the places among the sections of a text of those whose heading has the name
SectionsParsedAs(content, name) ==
  {k \in 1..Len(SectionsOf(content)) : HeadingName(SectionsOf(content)[k].heading) = name}

SectionsMatching(content, section_name) ==
  {k \in 1..Len(SectionsOf(content)) :
     HeadingMatches(SectionsOf(content)[k].heading, section_name)}

\* C21: when a note holds two sections of the same name, the first one is
\* the one read: the map of sections that read_full_note builds holds, under
\* each name, the body of the first section of that name, and read_section
\* returns the body of the first section whose heading matches the name.
C21_FirstSectionWins ==
  /\ (result.op = "read_full_note" /\ result.note.found)
       => \A name \in DOMAIN result.note.sections :
            result.note.sections[name]
              = SectionsOf(result.note.full_content)
                  [Least(SectionsParsedAs(result.note.full_content, name))].body
  /\ (result.op = "read_section" /\ result.note.found
        /\ Cardinality(SectionsMatching(result.note.full_content, result.section_name)) >= 2)
       => result.text
            = SectionsOf(result.note.full_content)
                [Least(SectionsMatching(result.note.full_content, result.section_name))].body

----------------------------------------------------------------------------
(* obsidian.py: read_daily_note on notes whose Tasks or Accomplishments    *)
(* section holds lines of every shape.                                     *)

\* the most lines of the section of a note that is read
MaxNoteLines == 2

\* lines of a Tasks section: the checked line with a priority tag, an open
\* line with two priority tags, an upper-case X, a line with no tag, an
\* indented line with a # inside a word and a tag that holds a hyphen, a
\* star for the hyphen, nothing but a tag, no blank before the box, no box
TaskLineShapes ==
  { <<"-", " ", "[", "x", "]", " ", "B", "u", "y", " ", "m", "i", "l", "k", " ", "#", "h", "i", "g", "h", "-", "p", "r", "i", "o", "r", "i", "t", "y">>, <<"-", " ", "[", " ", "]", " ", "c", "a", "l", "l", " ", "m", "o", "m", " ", "#", "l", "o", "w", "-", "p", "r", "i", "o", "r", "i", "t", "y", " ", "#", "u", "r", "g", "e", "n", "t">>,
    <<"-", " ", "[", "X", "]", " ", "u", "p", "p", "e", "r">>, <<"-", " ", "[", "x", "]", " ", "p", "l", "a", "i", "n">>, <<" ", " ", "-", " ", "[", " ", "]", " ", "a", "#", "b", " ", "c", " ", "#", "t", "-", "1", " ">>, <<"*", " ", "[", "x", "]", " ", "s", "t", "a", "r">>,
    <<"-", " ", "[", "x", "]", " ", "#", "u", "r", "g", "e", "n", "t">>, <<"-", "[", "x", "]", " ", "t", "i", "g", "h", "t">>, <<"-", " ", "[", " ", "]", " ", "a", "g", "a", "i", "n", " ", "#", "l", "o", "w", "-", "p", "r", "i", "o", "r", "i", "t", "y">> }

\* lines of an Accomplishments section: a bullet, a starred and checked one,
\* an unchecked one, the comment create_daily_note writes, a comment with no
\* bullet, a box and nothing else, a line that is no bullet
AccomplishmentLineShapes ==
  { <<"-", " ", "w", "o", "n">>, <<"*", " ", "[", "x", "]", " ", "s", "h", "i", "p", "p", "e", "d">>, <<"-", " ", "[", " ", "]", " ", "n", "o", "t", " ", "y", "e", "t">>, <<"-", " ", "<", "!", "-", "-", " ", "a", "d", "d", " ", "h", "e", "r", "e", " ", "-", "-", ">">>,
    <<"<", "!", "-", "-", " ", "c", " ", "-", "-", ">">>, <<"-", " ", "[", "x", "]">>, <<"p", "l", "a", "i", "n">> }

NotRead ==
  [op |-> "none", date |-> NoteDate, found |-> FALSE, content |-> EmptyText,
   tasks |-> <<>>, accomplishments |-> <<>>]

\* a vault with the note of NoteDate: a Tasks section or an Accomplishments
\* section and its lines; no call made yet
InitNote ==
  /\ \E m \in 1..MaxNoteLines :
       \/ \E heading \in TaskHeadings, lines \in [1..m -> TaskLineShapes] :
            vault = (get_daily_note_path(NoteDate) :>
                       [metadata |-> NoteMetadata(NoteDate), content |-> <<heading>> \o lines])
       \/ \E heading \in {PlainAccomplishmentsHeading, StyledAccomplishmentsHeading},
             lines \in [1..m -> AccomplishmentLineShapes] :
            vault = (get_daily_note_path(NoteDate) :>
                       [metadata |-> NoteMetadata(NoteDate), content |-> <<heading>> \o lines])
  /\ todos = <<>>
  /\ pc = "idle"
  /\ args = NoArgs
  /\ result = NotRead
  /\ first = NoResult
  /\ before = todos
  /\ vbefore = vault

\* read_daily_note(date)
ReadDailyNote ==
  /\ pc = "idle"
  /\ \E d \in TargetDates :
       result' = IF daily_note_exists(vault, d)
                    THEN [op |-> "read_daily_note", date |-> d, found |-> TRUE,
                          content |-> read_daily_note(vault, d).content,
                          tasks |-> read_daily_note(vault, d).tasks,
                          accomplishments |-> read_daily_note(vault, d).accomplishments]
                    ELSE [NotRead EXCEPT !.op = "read_daily_note", !.date = d]
  /\ pc' = "read"
  /\ UNCHANGED <<todos, vault, args, first, before, vbefore>>

SpecNote == InitNote /\ [][ReadDailyNote]_vars

\* the lines of the one section of the note that was read, each without the
\* whitespace around it
ReadLines ==
  LET body == SubSeq(result.content, 2, Len(result.content))
  IN [i \in 1..Len(body) |-> strip(body[i])]

\* the places among them of the lines "- [ ] <text>" and "- [x] <text>"
TaskLinePlaces ==
  LET S == {i \in 1..Len(ReadLines) :
              /\ Len(ReadLines[i]) >= 7
              /\ \/ SubSeq(ReadLines[i], 1, 6) = <<"-", " ", "[", " ", "]", " ">>
                 \/ SubSeq(ReadLines[i], 1, 6) = <<"-", " ", "[", "x", "]", " ">>}
  IN [k \in 1..Cardinality(S) |-> CHOOSE i \in S : Cardinality({j \in S : j < i}) = k - 1]

\* the text holds a #tag token: a # with a letter, digit or _ after it
HoldsTag(text) == \E p \in 1..(Len(text) - 1) : text[p] = "#" /\ IsWord(text[p + 1])

\* C22: for the lines of the Tasks section, each taken without the
\* whitespace around it, _extract_tasks yields a Task-Line exactly for the
\* lines "- [ ] <text>" and "- [x] <text>", in their order (an upper-case X
\* does not qualify); completed is true exactly if the box holds x; the
\* priority follows from the set of extracted tags alone (high if it holds
\* high-priority or urgent, else low if it holds low-priority, else medium);
\* and the display text holds no #tag token.
C22_TaskLines ==
  (result.op = "read_daily_note" /\ result.found
     /\ result.content[1] \in TaskHeadings)
    => /\ Len(result.tasks) = Len(TaskLinePlaces)
       /\ \A k \in 1..Len(result.tasks) :
            LET t == result.tasks[k]
                tags == {t.tags[j] : j \in 1..Len(t.tags)}
            IN /\ t.raw = ReadLines[TaskLinePlaces[k]]
               /\ t.completed <=> (t.raw[4] = "x")
               /\ t.priority = (IF <<"h", "i", "g", "h", "-", "p", "r", "i", "o", "r", "i", "t", "y">> \in tags \/ <<"u", "r", "g", "e", "n", "t">> \in tags THEN "high"
                                ELSE IF <<"l", "o", "w", "-", "p", "r", "i", "o", "r", "i", "t", "y">> \in tags THEN "low"
                                ELSE "medium")
               /\ ~HoldsTag(t.text)

\* the spec's example next to a line that does not qualify: a read of
\* "- [X] upper" and "- [x] Buy milk #high-priority" gives the one Task-Line
\* completed, high, "Buy milk", tagged high-priority
C22_Witness ==
  /\ result.op = "read_daily_note"
  /\ result.found
  /\ Len(result.content) = 3
  /\ result.content[2] = <<"-", " ", "[", "X", "]", " ", "u", "p", "p", "e", "r">>
  /\ Len(result.tasks) = 1
  /\ result.tasks[1].completed
  /\ result.tasks[1].priority = "high"
  /\ result.tasks[1].text = <<"B", "u", "y", " ", "m", "i", "l", "k">>
  /\ result.tasks[1].tags = << <<"h", "i", "g", "h", "-", "p", "r", "i", "o", "r", "i", "t", "y">> >>

\* a bullet without its list marker and without a checkbox marker, checked
\* or not, after it
BulletText(raw) ==
  IF Len(raw) >= 6 /\ (SubSeq(raw, 3, 6) = <<"[", "x", "]", " ">> \/ SubSeq(raw, 3, 6) = <<"[", " ", "]", " ">>)
     THEN strip(SubSeq(raw, 7, Len(raw)))
     ELSE strip(SubSeq(raw, 3, Len(raw)))

BulletPlaces ==
  LET S == {i \in 1..Len(ReadLines) :
              /\ Len(ReadLines[i]) >= 2
              /\ SubSeq(ReadLines[i], 1, 2) \in { <<"-", " ">>, <<"*", " ">> }
              /\ BulletText(ReadLines[i]) # <<>>
              /\ ~(Len(BulletText(ReadLines[i])) >= 4
                     /\ SubSeq(BulletText(ReadLines[i]), 1, 4) = <<"<", "!", "-", "-">>)}
  IN [k \in 1..Cardinality(S) |-> CHOOSE i \in S : Cardinality({j \in S : j < i}) = k - 1]

\* C23: _extract_accomplishments returns, for each line of the
\* Accomplishments section that starts with "- " or "* ", the text without
\* the list marker and without a leading checkbox marker, "[x] " as well as
\* "[ ] ", and leaves out comment lines and lines with no text left.
C23_Bullets ==
  (result.op = "read_daily_note" /\ result.found
     /\ result.content[1] \in {PlainAccomplishmentsHeading, StyledAccomplishmentsHeading})
    => /\ Len(result.accomplishments) = Len(BulletPlaces)
       /\ \A k \in 1..Len(BulletPlaces) :
            result.accomplishments[k] = BulletText(ReadLines[BulletPlaces[k]])

----------------------------------------------------------------------------
(* storage.py: add_todo, complete_todo and delete_todo, and                *)
(* task_selection.py: increment_skip_counts, on the todos table.           *)

\* any(keyword in text for keyword in keywords)
AnyIn(keywords, text) == \E k \in keywords : Contains(text, k)

\* int() of a run of digits
RECURSIVE IntOfDigits(_)
IntOfDigits(s) ==
  IF s = <<>> THEN 0
  ELSE 10 * IntOfDigits(SubSeq(s, 1, Len(s) - 1))
         + (CHOOSE n \in 0..9 : DigitChars[n + 1] = s[Len(s)])

\* the index of the last digit of the run of digits that begins at p
RECURSIVE DigitsEnd(_, _)
DigitsEnd(s, p) ==
  IF p <= Len(s) /\ InSeq(s[p], DigitChars) THEN DigitsEnd(s, p + 1) ELSE p - 1

\* s[p..] begins with w
StartsAt(s, p, w) == p + Len(w) - 1 <= Len(s) /\ SubSeq(s, p, p + Len(w) - 1) = w

\* (\d+)\s*(min|mins|minute|minutes|h|hr|hrs|hour|hours) matches from p on
TimeMatchesAt(s, p) ==
  /\ InSeq(s[p], DigitChars)
  /\ LET q == SkipSpaces(s, DigitsEnd(s, p) + 1)
     IN StartsAt(s, q, <<"m", "i", "n">>) \/ StartsAt(s, q, <<"h">>)

\* re.search(time_pattern, notes_lower): the amount in minutes of the first
\* match, None without a match
TimeInNotes(s) ==
  LET starts == {p \in 1..Len(s) : TimeMatchesAt(s, p)}
  IN IF starts = {} THEN NullInt
     ELSE LET p == Least(starts)
              amount == IntOfDigits(SubSeq(s, p, DigitsEnd(s, p)))
          IN IF StartsAt(s, SkipSpaces(s, DigitsEnd(s, p) + 1), <<"h">>)
                THEN amount * 60 ELSE amount

\* " ".join(auto_notes)
RECURSIVE JoinNotes(_)
JoinNotes(auto_notes) ==
  IF auto_notes = <<>> THEN <<>>
  ELSE IF Len(auto_notes) = 1 THEN auto_notes[1]
  ELSE auto_notes[1] \o <<" ">> \o JoinNotes(Tail(auto_notes))

\* the row add_todo inserts at the clock `now`
NewTodoRow(title, priority, notes, quick, now) ==
  LET title_lower == lower(title)
      notes_lower == lower(notes)
      is_quick == quick \/ AnyIn({ <<"q", "u", "i", "c", "k">>, <<"e", "a", "s", "y">> }, title_lower)
                        \/ AnyIn({ <<"q", "u", "i", "c", "k">>, <<"e", "a", "s", "y">> }, notes_lower)
      found == TimeInNotes(notes_lower)
      time_estimate == IF is_quick THEN 15 ELSE found
      quick_win == is_quick \/ (found # NullInt /\ found <= 30)
      auto_notes ==
        (IF AnyIn({ <<"s", "p", "r", "i", "n", "t">>, <<"s", "i", "d", "e", "c", "a", "r">>, <<"m", "i", "g", "r", "a", "t", "i", "o", "n">> }, title_lower)
            THEN <<TagSprintWork>> ELSE <<>>)
        \o (IF AnyIn({ <<"k", "o", "r", "o", "s", "h">>, <<"m", "a", "n", "a", "g", "e", "r">>, <<"p", "r", "e", "s", "e", "n", "t", "a", "t", "i", "o", "n">>, <<"m", "e", "e", "t", "i", "n", "g">> }, title_lower)
               THEN <<TagManagement>> ELSE <<>>)
        \o (IF AnyIn({ <<"d", "e", "a", "d", "l", "i", "n", "e">>, <<"d", "u", "e">> }, title_lower)
                 \/ AnyIn({ <<"d", "e", "a", "d", "l", "i", "n", "e">>, <<"d", "u", "e">> }, notes_lower)
               THEN <<TagDeadline>> ELSE <<>>)
        \o (IF quick_win THEN <<TagQuickWin>> ELSE <<>>)
  IN [title |-> title,
      priority |-> IF is_quick THEN "low"
                   ELSE IF priority \in {"low", "medium", "high"} THEN priority
                   ELSE "medium",
      notes |-> IF auto_notes = <<>> THEN notes
                ELSE IF notes = <<>> THEN JoinNotes(auto_notes)
                ELSE JoinNotes(auto_notes) \o <<"\n">> \o notes,
      status |-> "active", created_at |-> now, completed_at |-> NullInt,
      skipped_count |-> 0, time_estimate |-> time_estimate, last_scheduled |-> NULL]

\* add_todo(title, priority, notes, quick): the table with the row under the
\* next id of the AUTOINCREMENT sequence
add_todo(T, id, title, priority, notes, quick, now) ==
  [i \in DOMAIN T \cup {id} |->
     IF i = id THEN NewTodoRow(title, priority, notes, quick, now) ELSE T[i]]

\* complete_todo(todo_id): CURRENT_TIMESTAMP is the clock `now`
complete_todo(T, todo_id, now) ==
  IF todo_id \notin DOMAIN T THEN T
  ELSE [T EXCEPT ![todo_id].status = "completed", ![todo_id].completed_at = now]

\* delete_todo(todo_id)
delete_todo(T, todo_id) == [i \in DOMAIN T \ {todo_id} |-> T[i]]

\* increment_skip_counts(db, task_ids)
increment_skip_counts(T, task_ids) ==
  [i \in DOMAIN T |->
     IF i \in task_ids /\ T[i].status = "active"
        THEN [T[i] EXCEPT !.skipped_count = OrZero(T[i].skipped_count) + 1]
        ELSE T[i]]

----------------------------------------------------------------------------
(* The life of a task: the tools add_todo, complete_todo, delete_todo,     *)
(* start_my_day and sync_daily_note and the helper increment_skip_counts,  *)
(* in any order, while the clock goes on.                                  *)

\* the most rows ever inserted, the last tick of the clock and the largest
\* skipped_count increment_skip_counts is followed to
MaxAdded == 2
MaxClock == 1
MaxSkipped == 1

\* what add_todo is called with
AddInputs ==
  { [title |-> <<"p", "a", "y", " ", "b", "o", "b">>, priority |-> "medium", notes |-> <<>>, quick |-> FALSE],
    [title |-> <<"f", "i", "l", "e", " ", "t", "a", "x", "e", "s">>, priority |-> "high", notes |-> <<"d", "u", "e", " ", "2", "0", "m", "i", "n">>, quick |-> FALSE] }

\* the day after NoteDate
DayAfter(d) == [d EXCEPT !.day = d.day + 1]

\* the note of NoteDate as the user left it: one line checked
UserNote ==
  [metadata |-> NoteMetadata(NoteDate),
   content |-> << PlainTasksHeading, <<"-", " ", "[", "x", "]", " ", "p", "a", "y", " ", "b", "o", "b">>, <<"-", " ", "[", " ", "]", " ", "f", "i", "l", "e", " ", "t", "a", "x", "e", "s">> >>]

\* an empty table, the clock at 0, the user's note
InitLife ==
  /\ todos = <<>>
  /\ vault = (get_daily_note_path(NoteDate) :> UserNote)
  /\ pc = "idle"
  /\ args = [clock |-> 0, next_id |-> 1]
  /\ result = [op |-> "none"]
  /\ first = NoResult
  /\ before = todos
  /\ vbefore = vault

\* a second passes
Tick ==
  /\ args.clock < MaxClock
  /\ args' = [args EXCEPT !.clock = args.clock + 1]
  /\ result' = [op |-> "tick"]
  /\ before' = todos
  /\ vbefore' = vault
  /\ UNCHANGED <<todos, vault, pc, first>>

\* the tool add_todo(title, priority, notes, quick)
LifeAddTodo ==
  /\ args.next_id <= MaxAdded
  /\ \E in \in AddInputs :
       todos' = add_todo(todos, args.next_id, in.title, in.priority, in.notes, in.quick,
                         args.clock)
  /\ args' = [args EXCEPT !.next_id = args.next_id + 1]
  /\ result' = [op |-> "add_todo"]
  /\ before' = todos
  /\ vbefore' = vault
  /\ UNCHANGED <<vault, pc, first>>

\* the tool complete_todo(todo_id)
LifeCompleteTodo ==
  /\ \E todo_id \in 1..MaxAdded :
       /\ todos' = complete_todo(todos, todo_id, args.clock)
       /\ result' = [op |-> "complete_todo", todo_id |-> todo_id]
  /\ before' = todos
  /\ vbefore' = vault
  /\ UNCHANGED <<vault, pc, args, first>>

\* the tool delete_todo(todo_id)
LifeDeleteTodo ==
  /\ \E todo_id \in 1..MaxAdded :
       /\ todos' = delete_todo(todos, todo_id)
       /\ result' = [op |-> "delete_todo", todo_id |-> todo_id]
  /\ before' = todos
  /\ vbefore' = vault
  /\ UNCHANGED <<vault, pc, args, first>>

\* increment_skip_counts(db, task_ids)
LifeIncrementSkipCounts ==
  /\ \E task_ids \in {1..MaxAdded} :
       /\ \A i \in task_ids \cap DOMAIN todos : todos[i].skipped_count < MaxSkipped
       /\ todos' = increment_skip_counts(todos, task_ids)
  /\ result' = [op |-> "increment_skip_counts"]
  /\ before' = todos
  /\ vbefore' = vault
  /\ UNCHANGED <<vault, pc, args, first>>

\* start_my_day with its steps 1 and 2 exchanged: the selection is made on the
\* table as it was before yesterday's note was reconciled
LifeStartMyDaySelectFirst ==
  /\ \E d \in {DayAfter(NoteDate)}, o \in FetchOrders(todos) :
     \E selected \in {select_tasks_for_today(todos, d, DefaultMaxTasks)} :
     \E synced \in {IF daily_note_exists(vault, DayBefore(d))
                       THEN _sync_completed_tasks(vault, DayBefore(d), todos, o, args.clock).todos
                       ELSE todos} :
          /\ todos' = StampScheduled(synced, IdsOf(SelectedTasks(selected)), d)
          /\ vault' = IF ~daily_note_exists(vault, d)
                         THEN _create_daily_note_with_tasks(vault, d, selected)
                         ELSE vault
          /\ result' = [op |-> "start_my_day", target_date |-> d, selected |-> selected]
  /\ before' = todos
  /\ vbefore' = vault
  /\ UNCHANGED <<pc, args, first>>

\* the tool start_my_day(date_str): yesterday's note is reconciled, then the
\* selection is made, then today's note is written if there is none
LifeStartMyDay ==
  /\ \E d \in {DayAfter(NoteDate)}, o \in FetchOrders(todos) :
     \E synced \in {IF daily_note_exists(vault, DayBefore(d))
                       THEN _sync_completed_tasks(vault, DayBefore(d), todos, o, args.clock).todos
                       ELSE todos} :
     \E selected \in {select_tasks_for_today(synced, d, DefaultMaxTasks)} :
          /\ todos' = StampScheduled(synced, IdsOf(SelectedTasks(selected)), d)
          /\ vault' = IF ~daily_note_exists(vault, d)
                         THEN _create_daily_note_with_tasks(vault, d, selected)
                         ELSE vault
          /\ result' = [op |-> "start_my_day", target_date |-> d, selected |-> selected]
  /\ before' = todos
  /\ vbefore' = vault
  /\ UNCHANGED <<pc, args, first>>

\* the tool sync_daily_note(date_str)
LifeSyncDailyNote ==
  /\ \E d \in {NoteDate}, o \in FetchOrders(todos) :
       todos' = _sync_completed_tasks(vault, d, todos, o, args.clock).todos
  /\ result' = [op |-> "sync_daily_note"]
  /\ before' = todos
  /\ vbefore' = vault
  /\ UNCHANGED <<vault, pc, args, first>>

NextLife ==
  \/ Tick
  \/ LifeAddTodo
  \/ LifeCompleteTodo
  \/ LifeDeleteTodo
  \/ LifeIncrementSkipCounts
  \/ LifeStartMyDay
  \/ LifeSyncDailyNote

SpecLife == InitLife /\ [][NextLife]_vars

\* C24: once a task is completed, no operation but delete_todo changes any
\* of its fields: a row that was completed when the last operation started
\* and is still in the table is as it was; its status never goes back to
\* active, and a second complete_todo leaves its completed_at alone.
C24_CompletedIsFinal ==
  \A id \in DOMAIN before \cap DOMAIN todos :
     before[id].status = "completed" => todos[id] = before[id]

----------------------------------------------------------------------------
(* daily_notes.py: the date string of a tool.                              *)

\* str.split(c)
RECURSIVE SplitAt(_, _)
SplitAt(s, c) ==
  LET at == {i \in 1..Len(s) : s[i] = c}
  IN IF at = {} THEN <<s>>
     ELSE <<SubSeq(s, 1, Least(at) - 1)>> \o SplitAt(SubSeq(s, Least(at) + 1, Len(s)), c)

IsDigits(s) == \A i \in 1..Len(s) : InSeq(s[i], DigitChars)

\* the part of a date string between two hyphens is what the pattern of a
\* directive of strptime matches: %Y \d\d\d\d, %m 1[0-2]|0[1-9]|[1-9],
\* %d 3[01]|[12]\d|0[1-9]|[1-9]| [1-9], %M [0-5]\d|\d
FieldMatches(directive, part) ==
  CASE directive = "Y" -> Len(part) = 4 /\ IsDigits(part)
    [] directive = "m" ->
         /\ IsDigits(part)
         /\ \/ Len(part) = 2 /\ IntOfDigits(part) \in 1..12
            \/ Len(part) = 1 /\ IntOfDigits(part) \in 1..9
    [] directive = "d" ->
         \/ Len(part) = 2 /\ IsDigits(part) /\ IntOfDigits(part) \in 1..31
         \/ Len(part) = 1 /\ IsDigits(part) /\ IntOfDigits(part) \in 1..9
         \/ Len(part) = 2 /\ part[1] = " " /\ IsDigits(Tail(part)) /\ IntOfDigits(Tail(part)) \in 1..9
    [] directive = "M" ->
         /\ IsDigits(part)
         /\ \/ Len(part) = 2 /\ IntOfDigits(part) \in 0..59
            \/ Len(part) = 1

\* the date with no date in it
NoDate == NoArgs.target_date

\* datetime.strptime(date_str, "%Y-" + second + "-%d") for the directive second
\* "%m" or "%M": ok is False for ValueError; a month not given is 1, and the
\* minute is no part of the date
strptime(date_str, second) ==
  LET parts == SplitAt(date_str, "-")
  IN IF Len(parts) # 3 THEN [ok |-> FALSE, date |-> NoDate]
     ELSE IF ~(FieldMatches("Y", parts[1]) /\ FieldMatches(second, parts[2])
                 /\ FieldMatches("d", parts[3]))
        THEN [ok |-> FALSE, date |-> NoDate]
     ELSE LET year == IntOfDigits(parts[1])
              month == IF second = "m" THEN IntOfDigits(parts[2]) ELSE 1
              day == IntOfDigits(strip(parts[3]))
          IN IF year >= 1 /\ day <= DaysInMonth(year, month)
                THEN [ok |-> TRUE, date |-> [year |-> year, month |-> month, day |-> day]]
                ELSE [ok |-> FALSE, date |-> NoDate]


\* datetime.now() and date.today() while the tools run
Today == NoteDate

\* the "Parse date" step of a tool: today for no date string or an empty one
ParseDate(date_str, second) ==
  IF date_str = <<>> THEN [ok |-> TRUE, date |-> Today] ELSE strptime(date_str, second)

\* date strings: two days, month 13, the 30th of February, a day of one
\* digit, another order, text after the date, and none
DateStrings ==
  { <<"2", "0", "2", "5", "-", "1", "1", "-", "0", "7">>, <<"2", "0", "2", "5", "-", "1", "1", "-", "0", "8">>, <<"2", "0", "2", "5", "-", "1", "3", "-", "0", "7">>, <<"2", "0", "2", "5", "-", "0", "2", "-", "3", "0">>, <<"2", "0", "2", "5", "-", "1", "1", "-", "7">>,
    <<"1", "1", "/", "0", "7", "/", "2", "0", "2", "5">>, <<"2", "0", "2", "5", "-", "1", "1", "-", "0", "7", "x">>, <<>> }

\* the dates a note may be there for at the start
NotedDates == {NoteDate, [NoteDate EXCEPT !.month = 1]}

\* a note of the user: a Tasks section with a checked line and a Notes section
DatedNote(d) ==
  [metadata |-> NoteMetadata(d),
   content |-> << PlainTasksHeading, <<"-", " ", "[", "x", "]", " ", "p", "a", "y", " ", "b", "o", "b">>, <<"-", " ", "[", " ", "]", " ", "f", "i", "l", "e", " ", "t", "a", "x", "e", "s">>, <<>>,
                  <<"#", "#", " ", "N", "o", "t", "e", "s">>, <<"o", "l", "d">> >>]

\* what a tool returned: the kind of its message and the date it worked on
ToolReturned(op, date_str, message, d) ==
  [op |-> op, date_str |-> date_str, message |-> message, date |-> d]

\* one task or none in the table, notes of some dates, no call made yet
InitDate ==
  /\ todos \in {<<>>, <<NewTodoRow(<<"p", "a", "y", " ", "b", "o", "b">>, "medium", <<>>, FALSE, 0)>>}
  /\ \E present \in SUBSET NotedDates :
       vault = [p \in {get_daily_note_path(d) : d \in present} |->
                  DatedNote(CHOOSE d \in present : get_daily_note_path(d) = p)]
  /\ pc = "idle"
  /\ args = NoArgs
  /\ result = ToolReturned("none", <<>>, "none", NoDate)
  /\ first = NoResult
  /\ before = todos
  /\ vbefore = vault

\* the tool start_my_day(date_str)
DateStartMyDay ==
  /\ pc = "idle"
  /\ \E date_str \in DateStrings, o \in FetchOrders(todos) :
     \E p \in {ParseDate(date_str, "m")} :
       IF ~p.ok
          THEN /\ result' = ToolReturned("start_my_day", date_str, "invalid_date", p.date)
               /\ UNCHANGED <<todos, vault>>
          ELSE \E synced \in {IF daily_note_exists(vault, DayBefore(p.date))
                                 THEN _sync_completed_tasks(vault, DayBefore(p.date), todos, o, SyncNow).todos
                                 ELSE todos} :
               \E selected \in {select_tasks_for_today(synced, p.date, DefaultMaxTasks)} :
                  /\ todos' = StampScheduled(synced, IdsOf(SelectedTasks(selected)), p.date)
                  /\ vault' = IF ~daily_note_exists(vault, p.date)
                                 THEN _create_daily_note_with_tasks(vault, p.date, selected)
                                 ELSE vault
                  /\ result' = ToolReturned("start_my_day", date_str, "briefing", p.date)
  /\ pc' = "returned"
  /\ before' = todos
  /\ vbefore' = vault
  /\ UNCHANGED <<args, first>>

\* the tool create_daily_note(date_str)
DateCreateDailyNote ==
  /\ pc = "idle"
  /\ \E date_str \in DateStrings, in \in ToolInputs :
     \E p \in {ParseDate(date_str, "m")} :
          IF ~p.ok
             THEN /\ result' = ToolReturned("create_daily_note", date_str, "invalid_date", p.date)
                  /\ UNCHANGED vault
          ELSE IF daily_note_exists(vault, p.date)
             THEN /\ result' = ToolReturned("create_daily_note", date_str, "exists", p.date)
                  /\ UNCHANGED vault
             ELSE /\ vault' = ToolCreate(vault, p.date, in.goals, in.facts, in.clock)
                  /\ result' = ToolReturned("create_daily_note", date_str, "created", p.date)
  /\ pc' = "returned"
  /\ before' = todos
  /\ vbefore' = vault
  /\ UNCHANGED <<todos, args, first>>

\* the tool sync_from_daily_note(date_str), whose format is "%Y-%M-%d"
DateSyncFromDailyNote ==
  /\ pc = "idle"
  /\ \E date_str \in DateStrings :
     \E p \in {ParseDate(date_str, "M")} :
          result' = ToolReturned("sync_from_daily_note", date_str,
                             IF ~p.ok THEN "invalid_date"
                             ELSE IF ~daily_note_exists(vault, p.date) THEN "no_note"
                             ELSE "read", p.date)
  /\ pc' = "returned"
  /\ before' = todos
  /\ vbefore' = vault
  /\ UNCHANGED <<todos, vault, args, first>>

\* the tool get_daily_note_path(date_str)
DateGetDailyNotePath ==
  /\ pc = "idle"
  /\ \E date_str \in DateStrings :
     \E p \in {ParseDate(date_str, "m")} :
          result' = ToolReturned("get_daily_note_path", date_str,
                             IF ~p.ok THEN "invalid_date" ELSE "path", p.date)
  /\ pc' = "returned"
  /\ before' = todos
  /\ vbefore' = vault
  /\ UNCHANGED <<todos, vault, args, first>>

\* the tool read_daily_note_full(date_str)
DateReadDailyNoteFull ==
  /\ pc = "idle"
  /\ \E date_str \in DateStrings :
     \E p \in {ParseDate(date_str, "m")} :
          result' = ToolReturned("read_daily_note_full", date_str,
                             IF ~p.ok THEN "invalid_date"
                             ELSE IF ~read_full_note(vault, p.date).found THEN "no_note"
                             ELSE "read", p.date)
  /\ pc' = "returned"
  /\ before' = todos
  /\ vbefore' = vault
  /\ UNCHANGED <<todos, vault, args, first>>

\* the tool read_daily_note_section(date_str, section)
DateReadDailyNoteSection ==
  /\ pc = "idle"
  /\ \E date_str \in DateStrings, section \in SectionNames :
     \E p \in {ParseDate(date_str, "m")} :
          result' = ToolReturned("read_daily_note_section", date_str,
                             IF ~p.ok THEN "invalid_date"
                             ELSE IF read_section(vault, p.date, section) = NoText
                                THEN "no_section"
                             ELSE "read", p.date)
  /\ pc' = "returned"
  /\ before' = todos
  /\ vbefore' = vault
  /\ UNCHANGED <<todos, vault, args, first>>

\* the tool write_daily_note_section(section, content, date_str, append)
DateWriteDailyNoteSection ==
  /\ pc = "idle"
  /\ \E date_str \in DateStrings, section \in SectionNames, append \in BOOLEAN :
     \E p \in {ParseDate(date_str, "m")} :
       LET r == write_to_section(vault, p.date, section, << <<"n", "e", "w">> >>, append)
       IN IF ~p.ok
             THEN /\ result' = ToolReturned("write_daily_note_section", date_str, "invalid_date", p.date)
                  /\ UNCHANGED vault
             ELSE /\ vault' = r.vault
                  /\ result' = ToolReturned("write_daily_note_section", date_str,
                                        IF r.ok THEN "written" ELSE "failed", p.date)
  /\ pc' = "returned"
  /\ before' = todos
  /\ vbefore' = vault
  /\ UNCHANGED <<todos, args, first>>

\* the tool add_daily_note_section(section_name, content, date_str, emoji)
DateAddDailyNoteSection ==
  /\ pc = "idle"
  /\ \E date_str \in DateStrings, emoji \in SectionEmojis :
     \E p \in {ParseDate(date_str, "m")} :
       LET r == add_section(vault, p.date, <<"P", "l", "a", "n", "s">>, << <<"n", "e", "w">> >>, emoji)
       IN IF ~p.ok
             THEN /\ result' = ToolReturned("add_daily_note_section", date_str, "invalid_date", p.date)
                  /\ UNCHANGED vault
             ELSE /\ vault' = r.vault
                  /\ result' = ToolReturned("add_daily_note_section", date_str,
                                        IF r.ok THEN "added" ELSE "failed", p.date)
  /\ pc' = "returned"
  /\ before' = todos
  /\ vbefore' = vault
  /\ UNCHANGED <<todos, args, first>>

\* the tool sync_daily_note(date_str)
DateSyncDailyNote ==
  /\ pc = "idle"
  /\ \E date_str \in DateStrings, o \in FetchOrders(todos) :
     \E p \in {ParseDate(date_str, "m")} :
          IF ~p.ok
             THEN /\ result' = ToolReturned("sync_daily_note", date_str, "invalid_date", p.date)
                  /\ UNCHANGED todos
             ELSE /\ todos' = _sync_completed_tasks(vault, p.date, todos, o, SyncNow).todos
                  /\ result' = ToolReturned("sync_daily_note", date_str, "synced", p.date)
  /\ pc' = "returned"
  /\ before' = todos
  /\ vbefore' = vault
  /\ UNCHANGED <<vault, args, first>>

\* the tool generate_daily_summary(date_str)
DateGenerateDailySummary ==
  /\ pc = "idle"
  /\ \E date_str \in DateStrings :
     \E p \in {ParseDate(date_str, "m")} :
          result' = ToolReturned("generate_daily_summary", date_str,
                             IF ~p.ok THEN "invalid_date"
                             ELSE IF ~read_full_note(vault, p.date).found THEN "no_note"
                             ELSE "summary", p.date)
  /\ pc' = "returned"
  /\ before' = todos
  /\ vbefore' = vault
  /\ UNCHANGED <<todos, vault, args, first>>

NextDate ==
  \/ DateStartMyDay
  \/ DateCreateDailyNote
  \/ DateSyncFromDailyNote
  \/ DateGetDailyNotePath
  \/ DateReadDailyNoteFull
  \/ DateReadDailyNoteSection
  \/ DateWriteDailyNoteSection
  \/ DateAddDailyNoteSection
  \/ DateSyncDailyNote
  \/ DateGenerateDailySummary

SpecDate == InitDate /\ [][NextDate]_vars

\* the string is year-month-day in digits with hyphens between, and the
\* numbers are a date of the calendar
IsCalendarDate(date_str) ==
  /\ Len(date_str) \in 8..10
  /\ Len(SplitAt(date_str, "-")) = 3
  /\ \A k \in 1..3 : SplitAt(date_str, "-")[k] # <<>> /\ IsDigits(SplitAt(date_str, "-")[k])
  /\ Len(SplitAt(date_str, "-")[1]) = 4
  /\ IntOfDigits(SplitAt(date_str, "-")[1]) >= 1
  /\ IntOfDigits(SplitAt(date_str, "-")[2]) \in 1..12
  /\ IntOfDigits(SplitAt(date_str, "-")[3])
       \in 1..DaysInMonth(IntOfDigits(SplitAt(date_str, "-")[1]),
                          IntOfDigits(SplitAt(date_str, "-")[2]))

\* the date such a string names
CalendarDate(date_str) ==
  [year |-> IntOfDigits(SplitAt(date_str, "-")[1]),
   month |-> IntOfDigits(SplitAt(date_str, "-")[2]),
   day |-> IntOfDigits(SplitAt(date_str, "-")[3])]

\* C25: every tool that takes a date string returns the invalid-date message
\* when the string, if one is given, is not a date of the calendar written
\* year-month-day (month 13, the 30th of February, another order, text after
\* the date), and then changes neither the todos table nor a file of the vault.
C25_InvalidDateRejected ==
  (result.op # "none" /\ result.date_str # <<>> /\ ~IsCalendarDate(result.date_str))
    => /\ result.message = "invalid_date"
       /\ todos = before
       /\ vault = vbefore

\* C27: sync_from_daily_note with a valid date string reads the note at the
\* path of that very date, year, month and day, which is the path the tools
\* get_daily_note_path and sync_daily_note work on for the same string.
C27_SyncFromReadsThatDate ==
  (result.op = "sync_from_daily_note" /\ IsCalendarDate(result.date_str))
    => /\ result.message \in {"read", "no_note"}
       /\ get_daily_note_path(result.date) = get_daily_note_path(CalendarDate(result.date_str))
       /\ result.date = ParseDate(result.date_str, "m").date

-----------------------------------------------------------------------------
(* C26 *)

\* the ids this start_my_day call marked completed from yesterday's note
CompletedByCall == {id \in DOMAIN before \cap DOMAIN todos :
                      before[id].status = "active" /\ todos[id].status = "completed"}

\* the unchecked line a note shows for a title, or the start of it
UncheckedLineOf(title) == <<"-", " ", "[", " ", "]", " ">> \o title

\* the lines of the note this call wrote for its date, none if it wrote none
WrittenLines ==
  IF vault = vbefore THEN <<>>
  ELSE vault[get_daily_note_path(result.target_date)].content

\* C26: start_my_day(D) reconciles the note of D-1 before it selects: a task
\* this call marks completed from a checked line of yesterday's note is in
\* none of the three buckets of the same call, its last_scheduled is left as
\* it was, and every line of the note written for D that shows its title is
\* the line of a selected task of that title.
C26_SyncBeforeSelection ==
  result.op = "start_my_day" =>
    \A id \in CompletedByCall :
       /\ id \notin IdsOf(SelectedTasks(result.selected))
       /\ todos[id].last_scheduled = before[id].last_scheduled
       /\ \A k \in 1..Len(WrittenLines) :
            IsPrefix(UncheckedLineOf(todos[id].title), WrittenLines[k])
              => \E j \in 1..Len(SelectedTasks(result.selected)) :
                    IsPrefix(UncheckedLineOf(SelectedTasks(result.selected)[j].title),
                             WrittenLines[k])

\* a call that completed a task from yesterday's note, selected another one
\* and wrote the note of the day
C26_Witness ==
  /\ result.op = "start_my_day"
  /\ CompletedByCall # {}
  /\ SelectedTasks(result.selected) # <<>>
  /\ WrittenLines # <<>>

-----------------------------------------------------------------------------
(* The orchestrated flow: tasks are added, start_my_day writes the note of  *)
(* the day, the user checks one of its lines, and the note is reconciled.   *)

\* what add_todo is called with in the flow: the two of AddInputs, a quick
\* one and a high one without notes
ConvergeInputs ==
  AddInputs \cup
  { [title |-> <<"c", "a", "l", "l", " ", "m", "o", "m">>, priority |-> "low", notes |-> <<>>, quick |-> TRUE],
    [title |-> <<"s", "h", "i", "p", " ", "i", "t">>, priority |-> "high", notes |-> <<>>, quick |-> FALSE] }

\* the line the user leaves for a task they did
CheckedLineOf(title) == <<"-", " ", "[", "x", "]", " ">> \o title

\* an empty table and an empty vault
InitConverge ==
  /\ todos = <<>>
  /\ vault = <<>>
  /\ pc = "idle"
  /\ args = [next_id |-> 1, checked |-> 0]
  /\ result = [op |-> "none"]
  /\ first = NoResult
  /\ before = todos
  /\ vbefore = vault

\* the tool add_todo(title, priority, notes, quick)
ConvergeAddTodo ==
  /\ pc = "idle"
  /\ args.next_id <= MaxAdded
  /\ \E in \in ConvergeInputs :
       todos' = add_todo(todos, args.next_id, in.title, in.priority, in.notes, in.quick, 0)
  /\ args' = [args EXCEPT !.next_id = args.next_id + 1]
  /\ result' = [op |-> "add_todo"]
  /\ before' = todos
  /\ vbefore' = vault
  /\ UNCHANGED <<vault, pc, first>>

\* the tool start_my_day(date_str) for NoteDate, which has no note yet and
\* none the day before
ConvergeStartMyDay ==
  /\ pc = "idle"
  /\ todos # <<>>
  /\ \E selected \in {select_tasks_for_today(todos, NoteDate, DefaultMaxTasks)} :
       /\ todos' = StampScheduled(todos, IdsOf(SelectedTasks(selected)), NoteDate)
       /\ vault' = _create_daily_note_with_tasks(vault, NoteDate, selected)
       /\ result' = [op |-> "start_my_day", target_date |-> NoteDate, selected |-> selected]
  /\ pc' = "started"
  /\ before' = todos
  /\ vbefore' = vault
  /\ UNCHANGED <<args, first>>

\* the user changes the unchecked line of one selected task to "- [x] title"
UserChecksLine ==
  /\ pc = "started"
  /\ \E id \in IdsOf(SelectedTasks(result.selected)) :
     \E k \in 1..Len(vault[get_daily_note_path(NoteDate)].content) :
       /\ todos[id].status = "active"
       /\ IsPrefix(UncheckedLineOf(todos[id].title),
                   vault[get_daily_note_path(NoteDate)].content[k])
       /\ vault' = [vault EXCEPT ![get_daily_note_path(NoteDate)].content[k] =
                                    CheckedLineOf(todos[id].title)]
       /\ args' = [args EXCEPT !.checked = id]
  /\ result' = [op |-> "user_edit"]
  /\ pc' = "edited"
  /\ before' = todos
  /\ vbefore' = vault
  /\ UNCHANGED <<todos, first>>

\* the tool sync_daily_note(date_str) for NoteDate
ConvergeSyncDailyNote ==
  /\ pc = "edited"
  /\ \E o \in FetchOrders(todos) :
       todos' = _sync_completed_tasks(vault, NoteDate, todos, o, SyncNow).todos
  /\ result' = [op |-> "sync_daily_note"]
  /\ pc' = "synced"
  /\ before' = todos
  /\ vbefore' = vault
  /\ UNCHANGED <<vault, args, first>>

\* the tool start_my_day(date_str) for the day after NoteDate
ConvergeStartNextDay ==
  /\ pc = "edited"
  /\ \E o \in FetchOrders(todos) :
     \E synced \in {_sync_completed_tasks(vault, NoteDate, todos, o, SyncNow).todos} :
     \E selected \in {select_tasks_for_today(synced, DayAfter(NoteDate), DefaultMaxTasks)} :
       /\ todos' = StampScheduled(synced, IdsOf(SelectedTasks(selected)), DayAfter(NoteDate))
       /\ vault' = _create_daily_note_with_tasks(vault, DayAfter(NoteDate), selected)
       /\ result' = [op |-> "start_my_day", target_date |-> DayAfter(NoteDate),
                     selected |-> selected]
  /\ pc' = "synced"
  /\ before' = todos
  /\ vbefore' = vault
  /\ UNCHANGED <<args, first>>

NextConverge ==
  \/ ConvergeAddTodo
  \/ ConvergeStartMyDay
  \/ UserChecksLine
  \/ ConvergeSyncDailyNote
  \/ ConvergeStartNextDay

SpecConverge == InitConverge /\ [][NextConverge]_vars

\* C28: when start_my_day has written the note of D with an unchecked line
\* for a selected active task and the user has changed exactly that line to
\* "- [x] title", the following sync_daily_note(D) or start_my_day(D+1)
\* leaves that task completed.
C28_StoresConverge ==
  pc = "synced" => todos[args.checked].status = "completed"

-----------------------------------------------------------------------------
(* C29 *)

\* the rows whose status the last call took from active to completed
NewlyCompleted == {i \in DOMAIN todos : before[i].status = "active" /\ todos[i].status = "completed"}

\* C29: within one _sync_completed_tasks call each task is matched by at most
\* one checkbox: completed_tasks has one entry per task and completed_count
\* is the number of distinct rows whose status went from active to completed
\* in the call, also when two checked lines match the same title.
C29_CountsDistinctTasks ==
  pc = "synced" =>
    /\ result.completed_count = Cardinality(NewlyCompleted)
    /\ Len(result.completed_tasks) = Cardinality(NewlyCompleted)

-----------------------------------------------------------------------------
(* Checked lines without a display text and rows without a title.           *)

\* titles of the rows, the empty one among them
EmptyTitles == { <<>>, <<"p", "a", "y", " ", "b", "o", "b">>, <<"f", "i", "l", "e", " ", "t", "a", "x", "e", "s">> }

\* lines of the Tasks section: a checked line that is a tag only, a checked
\* line that matches a title, one that matches none, an unchecked tag
EmptyLinePool ==
  { <<"-", " ", "[", "x", "]", " ", "#", "u", "r", "g", "e", "n", "t">>, <<"-", " ", "[", "x", "]", " ", "p", "a", "y", " ", "b", "o", "b">>, <<"-", " ", "[", "x", "]", " ", "z", "z", "z">>, <<"-", " ", "[", " ", "]", " ", "#", "l", "a", "t", "e", "r">> }

\* a table of active rows and the note of one date, no call made yet
InitEmpty ==
  /\ \E n \in 1..MaxBacklog :
       \E titles \in [1..n -> EmptyTitles] :
         todos = [i \in 1..n |-> SyncRow(i, titles[i], "active")]
  /\ \E d \in TargetDates, m \in 1..MaxBoxes :
       \E lines \in [1..m -> EmptyLinePool] :
         vault = (get_daily_note_path(d) :>
                    [metadata |-> NoteMetadata(d), content |-> <<PlainTasksHeading>> \o lines])
  /\ pc = "idle"
  /\ args = NoArgs
  /\ result = SyncResult([completed_tasks |-> <<>>, warnings |-> <<>>])
  /\ first = NoResult
  /\ before = todos
  /\ vbefore = vault

SpecEmpty == InitEmpty /\ [][SyncDailyNote]_vars

\* the checked lines of the note the last call read
CheckedOfCall == CompletedCheckboxes(vault, args.target_date)

\* C30: a checked line whose text is empty once its tags are removed matches
\* no task, and no text matches a task through an empty title: a sync of a
\* note whose checked lines all have an empty text completes nothing, and no
\* sync completes a row whose title is empty.
C30_EmptyMatchesNothing ==
  pc = "synced" =>
    /\ (\A k \in 1..Len(CheckedOfCall) : CheckedOfCall[k].text = <<>>) => todos = before
    /\ \A i \in NewlyCompleted : todos[i].title # <<>>

====
